---------------------------- MODULE Spec2Model ----------------------------
(***************************************************************************)
(* Model of the amortization simulator of src/src/loan/mortgage.py         *)
(* (class Mortgage) over a daily table as produced by                      *)
(* src/src/loan/historic_tables.py (HistoricTables.main_table).            *)
(*                                                                         *)
(* Number representation.  Money amounts are integers (one unit = 1 ore);  *)
(* rates, multipliers and ratios are exact fractions [n, d] with d > 0.    *)
(* A product of an amount with a fraction is rounded down to a whole unit, *)
(* which stands for the rounding of the float product in the source.       *)
(* Values that the source keeps in floats that can become non-finite       *)
(* (fund_value, fund_tax_due and what is derived from them) are records    *)
(* [cls, v]: cls = "fin" with the integer v, or "nan", "pinf", "ninf",     *)
(* combined by the IEEE-754 rules.                                         *)
(***************************************************************************)
EXTENDS Integers, Sequences, FiniteSets

(***************************************************************************)
(* Bounds of the model.                                                    *)
(***************************************************************************)
\* Number of rows of the daily table of every run.
TableLen == 34
\* Largest days_offset a run is constructed with.
MaxOffset == 2
MaxNegOffset == 2
\* Largest table index that holds an unusual equity multiplier.
MaxSpecialIdx == 3
\* Largest number of days an expand_master_table call is given.
MaxExpandDays == 2
\* Number of rows of the daily table of the runs over a whole payoff time.
LongLen == 400
\* Largest of the small days_offset values of those runs.
MaxLongOffset == 6
\* First and last birth year of the runs over the owner's age.
FirstBirthYear == 1920
LastBirthYear == 2012
\* Number of rows of the daily table of those runs.
AgeTableLen == 4
\* rows of the daily table that two instances share
SharedTableLen == 6

\* calendar years of the daily interest rate runs
FirstRateYear == 1896
LastRateYear == 2104

(***************************************************************************)
(* Fractions and fixed-point products.                                     *)
(***************************************************************************)
Rat(n, d) == [n |-> n, d |-> d]

\* a > b for fractions with positive denominators (float comparison x > key)
RatGT(a, b) == a.n * b.d > b.n * a.d

\* floor(a * n / d) computed without leaving the 32-bit integers
MulDiv(a, n, d) == (a \div d) * n + ((a % d) * n) \div d

\* floats kept to eight decimals: the scale, and its half for products that
\* stay inside the 32-bit integers
Half8 == 100 * 100
Scale8 == Half8 * Half8

\* floor(a * b / 10^8) for a >= 0
mul8(a, b) ==
  LET ah == a \div Half8
      al == a % Half8
      bh == b \div Half8
      bl == b % Half8
  IN  ah * bh + (ah * bl + al * bh + (al * bl) \div Half8) \div Half8

\* float product amount * fraction
MulRat(a, r) ==
  IF r.d = Scale8 THEN mul8(a, r.n) ELSE MulDiv(a, r.n, r.d)

(***************************************************************************)
(* Float values that may be non-finite.                                    *)
(***************************************************************************)
Fin(x) == [cls |-> "fin", v |-> x]
NaN == [cls |-> "nan", v |-> 0]
PosInf == [cls |-> "pinf", v |-> 0]
NegInf == [cls |-> "ninf", v |-> 0]

IsFin(a) == a.cls = "fin"

FNeg(a) ==
  CASE a.cls = "fin" -> Fin(0 - a.v)
    [] a.cls = "pinf" -> NegInf
    [] a.cls = "ninf" -> PosInf
    [] OTHER -> NaN

FAdd(a, b) ==
  CASE a.cls = "nan" \/ b.cls = "nan" -> NaN
    [] a.cls = "fin" /\ b.cls = "fin" -> Fin(a.v + b.v)
    [] a.cls = "fin" -> b
    [] b.cls = "fin" -> a
    [] a.cls = b.cls -> a
    [] OTHER -> NaN

FSub(a, b) == FAdd(a, FNeg(b))

\* float product of a value with a finite fraction r (r.d > 0)
FScale(a, r) ==
  CASE a.cls = "nan" -> NaN
    [] a.cls = "fin" -> Fin(MulRat(a.v, r))
    [] r.n = 0 -> NaN
    [] r.n > 0 -> a
    [] OTHER -> FNeg(a)

\* float quotient of a value by a positive integer k
FDivInt(a, k) == IF a.cls = "fin" THEN Fin(a.v \div k) ELSE a

\* float product of a value with an equity multiplier m = [cls, n, d]
FMul(a, m) ==
  CASE m.cls = "fin" -> FScale(a, Rat(m.n, m.d))
    [] m.cls = "nan" \/ a.cls = "nan" -> NaN
    [] a.cls = "fin" /\ a.v = 0 -> NaN
    [] a.cls = "fin" /\ a.v > 0 -> [cls |-> m.cls, v |-> 0]
    [] a.cls = "fin" -> FNeg([cls |-> m.cls, v |-> 0])
    [] a.cls = m.cls -> PosInf
    [] OTHER -> NegInf

\* a < b for finite or infinite values (false when one is NaN)
FLess(a, b) ==
  CASE a.cls = "nan" \/ b.cls = "nan" -> FALSE
    [] a.cls = "fin" /\ b.cls = "fin" -> a.v < b.v
    [] a.cls = b.cls -> FALSE
    [] OTHER -> a.cls = "ninf" \/ b.cls = "pinf"

\* abs() of a float value
FAbs(a) ==
  CASE a.cls = "fin" -> Fin(IF a.v < 0 THEN 0 - a.v ELSE a.v)
    [] a.cls = "nan" -> NaN
    [] OTHER -> PosInf

(***************************************************************************)
(* Calendar (pandas Timestamp attributes used by the simulator).           *)
(***************************************************************************)
Date(y, m, d) == [year |-> y, month |-> m, day |-> d]

\* Mortgage._is_leap_year: date(year, 2, 29) exists
_is_leap_year(year) ==
  /\ year \in 1..9999
  /\ (year % 4 = 0 /\ year % 100 # 0) \/ year % 400 = 0

DaysInMonth(y, m) ==
  IF m = 2 THEN (IF _is_leap_year(y) THEN 29 ELSE 28)
  ELSE IF m \in {4, 6, 9, 11} THEN 30 ELSE 31

is_month_end(dt) == dt.day = DaysInMonth(dt.year, dt.month)
is_month_start(dt) == dt.day = 1
is_year_start(dt) == dt.month = 1 /\ dt.day = 1
ReplaceDay1(dt) == Date(dt.year, dt.month, 1)

NextDay(dt) ==
  IF ~is_month_end(dt) THEN Date(dt.year, dt.month, dt.day + 1)
  ELSE IF dt.month = 12 THEN Date(dt.year + 1, 1, 1)
  ELSE Date(dt.year, dt.month + 1, 1)

RECURSIVE AddDays(_, _)
AddDays(dt, k) == IF k = 0 THEN dt ELSE AddDays(NextDay(dt), k - 1)

\* days before 1 January of year y (proleptic Gregorian ordinal)
DaysBeforeYear(y) ==
  (y - 1) * 365 + (y - 1) \div 4 - (y - 1) \div 100 + (y - 1) \div 400

\* datetime._DAYS_BEFORE_MONTH: days of a common year before each month
_DAYS_BEFORE_MONTH ==
  << 0, 31, 59, 90, 120, 151, 181, 212, 243, 273, 304, 334 >>

\* datetime._days_before_month: days of year y before the month m
DaysBeforeMonth(y, m) ==
  _DAYS_BEFORE_MONTH[m] + (IF m > 2 /\ _is_leap_year(y) THEN 1 ELSE 0)

\* date.toordinal(): 1 for 0001-01-01
toordinal(dt) ==
  DaysBeforeYear(dt.year) + DaysBeforeMonth(dt.year, dt.month) + dt.day

\* date.fromordinal(): the date of an ordinal
fromordinal(n) ==
  LET n0 == n - 1
      n400 == n0 \div 146097
      r400 == n0 % 146097
      n100 == r400 \div 36524
      r100 == r400 % 36524
      n4 == r100 \div 1461
      r4 == r100 % 1461
      n1 == r4 \div 365
      r1 == r4 % 365
      y == n400 * 400 + n100 * 100 + n4 * 4 + n1 + 1
      guess == (r1 + 50) \div 32
      m == IF DaysBeforeMonth(y, guess) > r1 THEN guess - 1 ELSE guess
  IN  IF n1 = 4 \/ n100 = 4 THEN Date(y - 1, 12, 31)
      ELSE Date(y, m, r1 - DaysBeforeMonth(y, m) + 1)

\* Python 0-based indexing of an array held as a sequence
At(arr, i) == IF i < 0 THEN arr[Len(arr) + i + 1] ELSE arr[i + 1]


(***************************************************************************)
(* Class constants of Mortgage.                                            *)
(***************************************************************************)
\* dicts as sets of (key, value) items
_loan_to_value_cutoffs ==
  { [key |-> Rat(7, 10), value |-> Rat(2, 100)],
    [key |-> Rat(5, 10), value |-> Rat(1, 100)] }

_debt_ratio_cutoffs == { [key |-> Rat(45, 10), value |-> Rat(1, 100)] }

\* cost per million, in hundredths
_risk_cost_per_million_by_age_cutoffs ==
  [a \in {20, 25, 30, 35, 40, 45, 50, 55, 60, 65, 70, 75, 80, 85, 90} |->
     CASE a = 20 -> Rat(70, 100)    [] a = 25 -> Rat(72, 100)
       [] a = 30 -> Rat(56, 100)    [] a = 35 -> Rat(72, 100)
       [] a = 40 -> Rat(105, 100)   [] a = 45 -> Rat(173, 100)
       [] a = 50 -> Rat(294, 100)   [] a = 55 -> Rat(466, 100)
       [] a = 60 -> Rat(742, 100)   [] a = 65 -> Rat(1330, 100)
       [] a = 70 -> Rat(2110, 100)  [] a = 75 -> Rat(3556, 100)
       [] a = 80 -> Rat(6394, 100)  [] a = 85 -> Rat(11440, 100)
       [] a = 90 -> Rat(19642, 100)]

_capital_tax_rate == Rat(3, 10)

(***************************************************************************)
(* State of one Mortgage instance.                                         *)
(***************************************************************************)
VARIABLES
  asset_value, birth_date, current_date, household_gross_income,
  fund_value, initial_principal, principal,
  omxs30_change_multiplier, bank_rate, standard_rate, historic_date_range,
  days_offset, payoff_time, fund_fee, fraction_invested, fund_tax_due,
  master_table,
  \* the cumulative_interest column of master_table, once it exists
  cumulative_interest,
  \* the exception the latest method call ended with, "none" without one
  raised,
  \* the value the latest method call returned, << >> for None
  returned,
  \* the data frames a HistoricTables instance is constructed with
  _new_omxs30, _goverment_borrowing_rate, _consumer_price_index,
  _policy_rate, _old_omxs30,
  \* the attributes of the other Mortgage instance built over the same
  \* HistoricTables, << >> when there is none
  other

historic_tables ==
  << _new_omxs30, _goverment_borrowing_rate, _consumer_price_index,
     _policy_rate, _old_omxs30 >>

params ==
  << asset_value, birth_date, current_date, household_gross_income,
     initial_principal, days_offset, payoff_time, fund_fee,
     fraction_invested, historic_tables >>

tables ==
  << omxs30_change_multiplier, bank_rate, standard_rate,
     historic_date_range >>

\* what the calls on the instance leave behind besides the loan state
outcome == << cumulative_interest, raised, returned >>

vars ==
  << params, tables, principal, fund_value, fund_tax_due, master_table,
     outcome, other >>

(***************************************************************************)
(* Class methods and properties.                                           *)
(***************************************************************************)
\* the larger of two fractions, the first when they are equal (Python max)
RatMax2(a, b) == IF RatGT(b, a) THEN b ELSE a

\* max of a non-empty set of fractions
RatMaxOf(S) == CHOOSE x \in S : \A y \in S : ~RatGT(y, x)

\* variant of _check_cutoff that also counts a value equal to the key
_check_cutoff_inclusive(cutoff_dict, cutoff_value) ==
  RatMaxOf({ IF ~RatGT(e.key, cutoff_value) THEN e.value ELSE Rat(0, 100) :
             e \in cutoff_dict })

\* max([value if cutoff_value > key else 0 for key, value in dict.items()])
_check_cutoff(cutoff_dict, cutoff_value) ==
  RatMaxOf({ IF RatGT(cutoff_value, e.key) THEN e.value ELSE Rat(0, 100) :
             e \in cutoff_dict })

\* int(date.strftime("%m%d"))
_convert_date_to_int(date_to_convert) ==
  date_to_convert.month * 100 + date_to_convert.day

\* variant of _first_date that takes the second date when both are equal
_first_date_of_last_minimum(date_one, date_two) ==
  IF _convert_date_to_int(date_one) < _convert_date_to_int(date_two)
  THEN 0 ELSE 1

\* date_list.index(min(date_list))
_first_date(date_one, date_two) ==
  IF _convert_date_to_int(date_one) <= _convert_date_to_int(date_two)
  THEN 0 ELSE 1

\* transaction_total / (2 if month >= 7 else 1) * standard_rate * 0.3
_standard_sum(transaction_total, date_of_transaction, rate) ==
  FScale(FScale(FDivInt(transaction_total,
                        IF date_of_transaction.month >= 7 THEN 2 ELSE 1),
                rate),
         _capital_tax_rate)

\* the properties below read self.principal / self.fund_value, which
\* add_master_row changes while it runs: they take the value as a parameter
loan_to_value_ratio(p) == Rat(p, asset_value)

debt_ratio(p) == Rat(p, household_gross_income)

\* the yearly percentage of minimum_monthly_payment, from the two ratios
yearly_minimum_percentage(ltv, dr) ==
  RatMax2(_check_cutoff(_loan_to_value_cutoffs, ltv),
          _check_cutoff(_debt_ratio_cutoffs, dr))

minimum_monthly_payment(p) ==
  MulRat(initial_principal,
         yearly_minimum_percentage(loan_to_value_ratio(p), debt_ratio(p)))
    \div 12

age ==
  (current_date.year - birth_date.year) - _first_date(birth_date, current_date)

\* variant of rounded_age that rounds down to a multiple of 5
rounded_age_down ==
  IF age < 20 THEN 20
  ELSE IF age > 90 THEN 90
  ELSE 5 * (age \div 5)

\* 5 * round(age / 5) between 20 and 90
rounded_age ==
  IF age < 20 THEN 20
  ELSE IF age > 90 THEN 90
  ELSE 5 * ((2 * age + 5) \div 10)

risk_cost(fv) ==
  FDivInt(FScale(fv, _risk_cost_per_million_by_age_cutoffs[rounded_age]),
          1000000)

total_monthly_payment == initial_principal \div (payoff_time * 12)

\* variant of payment_split that takes the minimum payment of the principal
\* before the day's interest
payment_split_before_interest(p) ==
  LET fund_investment ==
        MulRat(total_monthly_payment - minimum_monthly_payment(principal),
               fraction_invested)
      loan_payment == total_monthly_payment - fund_investment
  IN  [loan_payment |-> loan_payment, fund_investment |-> fund_investment]

payment_split(p) ==
  LET fund_investment ==
        MulRat(total_monthly_payment - minimum_monthly_payment(p),
               fraction_invested)
      loan_payment == total_monthly_payment - fund_investment
  IN  [loan_payment |-> loan_payment, fund_investment |-> fund_investment]

principal_fund_delta(p, fv) == FSub(Fin(p), fv)

(***************************************************************************)
(* Inputs: constructor arguments and the daily table.                      *)
(***************************************************************************)
\* first date of the daily table
StartDates ==
  { Date(1994, 6, 1), Date(2023, 1, 30), Date(2023, 4, 29),
    Date(2023, 6, 29), Date(2023, 10, 30), Date(2023, 12, 30),
    Date(2024, 2, 27) }

\* finite equity multipliers, and the unusual ones
Mult(n, d) == [cls |-> "fin", n |-> n, d |-> d]
MultNaN == [cls |-> "nan", n |-> 0, d |-> 1]
MultPosInf == [cls |-> "pinf", n |-> 0, d |-> 1]
MultNegInf == [cls |-> "ninf", n |-> 0, d |-> 1]
SpecialMultipliers == { Mult(0, 100), MultPosInf, MultNegInf, MultNaN }

\* day-over-day patterns of the equity multiplier, repeated over the table
OmxPatterns ==
  { << Mult(101, 100), Mult(99, 100), Mult(100, 100) >>,
    << Mult(98, 100) >> }

DefaultOmx ==
  [pattern |-> << Mult(101, 100), Mult(99, 100), Mult(100, 100) >>,
   special_idx |-> -1, special |-> Mult(100, 100)]

OmxChoices ==
  { [pattern |-> pt, special_idx |-> -1, special |-> Mult(100, 100)] :
      pt \in OmxPatterns }
  \cup
  { [pattern |-> pt, special_idx |-> i, special |-> sp] :
      pt \in OmxPatterns, i \in 0..MaxSpecialIdx, sp \in SpecialMultipliers }

IsNaN(v) == v.cls = "nan"

IsInf(v) == v.cls \in { "pinf", "ninf" }

\* x["policy_rate"] + interest_markup
MultAdd(a, b) ==
  IF IsNaN(a) \/ IsNaN(b) THEN MultNaN
  ELSE IF IsInf(a) THEN (IF IsInf(b) /\ b.cls # a.cls THEN MultNaN ELSE a)
  ELSE IF IsInf(b) THEN b
  ELSE IF a.d % b.d = 0 THEN Mult(a.n + b.n * (a.d \div b.d), a.d)
  ELSE Mult(a.n * b.d + b.n * a.d, a.d * b.d)

\* yearly policy rates in hundredths of a percent, and the markups a bank
\* adds to them
RateHundredths ==
  { 0 - 100 * 100, 0 - 100, 0 - 50, 0, 375, 695, 2900, 100 * 100 }
PolicyRates == { Mult(h, 100 * 100) : h \in RateHundredths }
InterestMarkups == { Mult(0, 100), Mult(1, 100), Mult(2, 100) }

\* a float of eight decimals held to twenty: the whole part and five limbs
\* of four decimals
limbs(m) ==
  << m \div Scale8, (m \div Half8) % Half8, m % Half8, 0, 0, 0 >>

\* floor of the product of two floats of twenty decimals; a product of
\* 10^4 or more is kept as 10^4, above every float of eight decimals
mul20(a, b) ==
  LET c10 == a[6] * b[6]
      c9 == a[5] * b[6] + a[6] * b[5]
      c8 == a[4] * b[6] + a[5] * b[5] + a[6] * b[4]
      c7 == a[3] * b[6] + a[4] * b[5] + a[5] * b[4] + a[6] * b[3]
      c6 == a[2] * b[6] + a[3] * b[5] + a[4] * b[4] + a[5] * b[3]
              + a[6] * b[2]
      c5 == a[1] * b[6] + a[2] * b[5] + a[3] * b[4] + a[4] * b[3]
              + a[5] * b[2] + a[6] * b[1]
      c4 == a[1] * b[5] + a[2] * b[4] + a[3] * b[3] + a[4] * b[2]
              + a[5] * b[1]
      c3 == a[1] * b[4] + a[2] * b[3] + a[3] * b[2] + a[4] * b[1]
      c2 == a[1] * b[3] + a[2] * b[2] + a[3] * b[1]
      c1 == a[1] * b[2] + a[2] * b[1]
      c0 == a[1] * b[1]
      t9 == c9 + c10 \div Half8
      t8 == c8 + t9 \div Half8
      t7 == c7 + t8 \div Half8
      t6 == c6 + t7 \div Half8
      t5 == c5 + t6 \div Half8
      t4 == c4 + t5 \div Half8
      t3 == c3 + t4 \div Half8
      t2 == c2 + t3 \div Half8
      t1 == c1 + t2 \div Half8
      t0 == c0 + t1 \div Half8
  IN  IF t0 >= Half8 THEN << Half8, 0, 0, 0, 0, 0 >>
      ELSE << t0, t1 % Half8, t2 % Half8, t3 % Half8, t4 % Half8,
              t5 % Half8 >>

\* a <= b for floats of twenty decimals
RECURSIVE leq20(_, _, _)
leq20(a, b, i) ==
  IF i > Len(a) THEN TRUE
  ELSE IF a[i] # b[i] THEN a[i] < b[i]
  ELSE leq20(a, b, i + 1)

\* m ** e by repeated squaring, to twenty decimals
RECURSIVE pow20(_, _)
pow20(m, e) ==
  IF e = 0 THEN limbs(Scale8)
  ELSE CHOOSE out \in
         { IF e % 2 = 0 THEN sq ELSE mul20(sq, m) :
             sq \in { mul20(h, h) : h \in { pow20(m, e \div 2) } } } : TRUE

\* m ** e to eight decimals
pow8(m, e) ==
  CHOOSE out \in
    { p[1] * Scale8 + p[2] * Half8 + p[3] : p \in { pow20(limbs(m), e) } } :
    TRUE

\* the largest m in lo..hi with m ** root <= base, in eight decimals
RECURSIVE root8(_, _, _, _)
root8(base, root, lo, hi) ==
  IF lo = hi THEN lo
  ELSE CHOOSE out \in
         { IF leq20(pow20(limbs(mid), root), limbs(base), 1)
           THEN root8(base, root, mid, hi)
           ELSE root8(base, root, lo, mid - 1) :
             mid \in { lo + (hi - lo + 1) \div 2 } } : TRUE

\* 1 + yearly_interest_rate to eight decimals
base8(yearly_interest_rate) ==
  Scale8 + MulDiv(Scale8, yearly_interest_rate.n, yearly_interest_rate.d)

\* base ** (1 / root) to eight decimals for a base of 0 or more: 0 for 0,
\* otherwise the root lies between the base and 1
root_of(base, root) ==
  IF base = 0 THEN 0
  ELSE IF base < Scale8 THEN root8(base, root, base, Scale8)
  ELSE root8(base, root, Scale8, base)

\* the roots of the yearly rates the tables hold, computed once
daily_roots ==
  [b \in { base8(MultAdd(p, k)) : p \in PolicyRates, k \in InterestMarkups },
   root \in {365, 366} |-> root_of(b, root)]

\* base ** (1 / root) to eight decimals
daily_root(base, root) ==
  IF << base, root >> \in DOMAIN daily_roots THEN daily_roots[base, root]
  ELSE root_of(base, root)

\* variant of _calculate_daily_interest_rate that takes every year as 365
\* days
_calculate_daily_interest_rate_365(yearly_interest_rate, year) ==
  IF IsNaN(yearly_interest_rate) THEN MultNaN
  ELSE IF IsInf(yearly_interest_rate) THEN MultPosInf
  ELSE IF base8(yearly_interest_rate) < 0
  THEN [cls |-> "complex", n |-> base8(yearly_interest_rate), d |-> Scale8]
  ELSE Mult(daily_root(base8(yearly_interest_rate), 365), Scale8)

\* (1 + yearly_interest_rate) ** (1 / (365 + cls._is_leap_year(year))) on
\* Python numbers: nan stays nan, a root of an infinity is inf, a root of a
\* negative number is a complex number
_calculate_daily_interest_rate(yearly_interest_rate, year) ==
  IF IsNaN(yearly_interest_rate) THEN MultNaN
  ELSE IF IsInf(yearly_interest_rate) THEN MultPosInf
  ELSE IF base8(yearly_interest_rate) < 0
  THEN [cls |-> "complex", n |-> base8(yearly_interest_rate), d |-> Scale8]
  ELSE Mult(daily_root(base8(yearly_interest_rate),
                       365 + (IF _is_leap_year(year) THEN 1 ELSE 0)),
            Scale8)

\* daily_rate ** days for days of 0 or more: a power of 0 is 1.0 whatever
\* the base is
compounded(daily_rate, days) ==
  IF days = 0
  THEN (IF daily_rate.cls = "complex"
        THEN [cls |-> "complex", n |-> Scale8, d |-> Scale8]
        ELSE Mult(Scale8, Scale8))
  ELSE IF daily_rate.cls = "ninf"
  THEN (IF days % 2 = 0 THEN MultPosInf ELSE MultNegInf)
  ELSE IF daily_rate.cls # "fin" THEN daily_rate
  ELSE Mult(pow8(daily_rate.n, days), Scale8)

\* yearly policy rates of the table: first, second, index of the change
DefaultPolicy ==
  [first |-> Mult(695, 100 * 100), second |-> Mult(695, 100 * 100),
   change |-> 0]
PolicyChoices ==
  { [first |-> Mult(0 - 100, 100 * 100), second |-> Mult(0 - 100, 100 * 100),
     change |-> 0],
    [first |-> Mult(695, 100 * 100), second |-> Mult(2900, 100 * 100),
     change |-> 10] }

\* consumer_price_index_change_multiplier of every row of the table
DefaultCpiMultiplier == Mult(10001, 100 * 100)

\* annual standard rate of the table's first year and of the year after it
DefaultStd == [first |-> Rat(8540, 100000), next |-> Rat(1250, 100000)]
StdChoices ==
  { [first |-> Rat(1250, 100000), next |-> Rat(1250, 100000)],
    [first |-> Rat(2000, 100000), next |-> Rat(3120, 100000)] }

\* HistoricTables.standard_rate: the annual rate, halved from July on
StandardRateOn(dt, annual) ==
  IF dt.month > 6 THEN Rat(annual.n, 2 * annual.d) ELSE annual

\* the calendar days of a table that starts on each start date
DateRange == [s \in StartDates |-> [i \in 1..TableLen |-> AddDays(s, i - 1)]]

\* the columns of a daily table over the calendar days dates
TableOver(dates, omx, policy, std) ==
  [ date |-> dates,
    omxs30_change_multiplier |->
      [i \in 1..Len(dates) |->
         IF i - 1 = omx.special_idx THEN omx.special
         ELSE omx.pattern[((i - 1) % Len(omx.pattern)) + 1]],
    policy_rate |->
      [i \in 1..Len(dates) |->
         IF i - 1 < policy.change THEN policy.first ELSE policy.second],
    standard_rate |->
      [i \in 1..Len(dates) |->
         StandardRateOn(dates[i], IF dates[i].year = dates[1].year
                                  THEN std.first ELSE std.next)],
    consumer_price_index_change_multiplier |->
      [i \in 1..Len(dates) |-> DefaultCpiMultiplier] ]

\* the columns of historic_tables.main_table, one row per calendar day
MainTable(start, omx, policy, std) ==
  TableOver(DateRange[start], omx, policy, std)

\* the calendar days of a table that covers more than a year
LongStart == Date(1994, 6, 1)
LongDateRange ==
  [i \in 1..LongLen |-> fromordinal(toordinal(LongStart) + i - 1)]

DefaultArgs ==
  [ asset_value |-> 168000000, birth_date |-> Date(1950, 3, 15),
    current_date |-> Date(2024, 9, 1),
    household_gross_income |-> 33600000, principal |-> 84000000,
    payoff_time |-> 25, interest_markup |-> Mult(1, 100),
    fund_fee |-> Rat(4, 1000), fraction_invested |-> Rat(1, 2),
    omx |-> DefaultOmx, policy |-> DefaultPolicy, std |-> DefaultStd ]

\* loan parameters varied over the default table
LoanArgs ==
  { [DefaultArgs EXCEPT !.asset_value = av, !.household_gross_income = inc,
                        !.payoff_time = pt, !.fraction_invested = fr] :
      av \in {210000000, 120000000, 84000000},
      inc \in {33600000, 16800000},
      pt \in {25, 100},
      fr \in {Rat(0, 1), Rat(1, 2), Rat(1, 1)} }

\* equity multipliers varied under the default loan
OmxArgs == { [DefaultArgs EXCEPT !.omx = o] : o \in OmxChoices }

\* rates and the owner's age varied under the default loan
RateArgs ==
  { [DefaultArgs EXCEPT !.policy = pr, !.interest_markup = k, !.std = sd,
                        !.birth_date = bd.birth, !.current_date = bd.now] :
      pr \in PolicyChoices, k \in { Mult(1, 100), Mult(2, 100) },
      sd \in StdChoices,
      bd \in { [birth |-> Date(2006, 9, 2), now |-> Date(2024, 9, 1)],
               [birth |-> Date(1990, 9, 2), now |-> Date(2024, 9, 2)],
               [birth |-> Date(1930, 1, 1), now |-> Date(2024, 9, 3)] } }

\* the arguments of the constructor call of the test case
TestArgs ==
  [ asset_value |-> 10000000, birth_date |-> Date(2006, 9, 2),
    current_date |-> Date(2024, 9, 1),
    household_gross_income |-> 2000000, principal |-> 5000000,
    payoff_time |-> 25, interest_markup |-> Mult(1, 100),
    fund_fee |-> Rat(4, 1000), fraction_invested |-> Rat(1, 2),
    omx |-> DefaultOmx, policy |-> DefaultPolicy, std |-> DefaultStd ]

ConstructorArgs == LoanArgs \cup OmxArgs \cup RateArgs \cup {TestArgs}

\* days_offset: counted from the start of the table or, when negative, from
\* its end; one past either end of the table
ConstructorOffsets ==
  ((0 - MaxNegOffset)..MaxOffset) \cup {TableLen, 0 - TableLen - 1}

(***************************************************************************)
(* Mortgage.__init__                                                       *)
(***************************************************************************)
\* master_table has no cumulative_interest column
NoColumn == [present |-> FALSE, values |-> << >>]

SeedRow(dt, p, fv) ==
  [ date |-> dt, principal |-> p, fund_value |-> fv,
    current_month_interest |-> 0, loan_payment |-> 0,
    fund_investment |-> 0,
    principal_fund_delta |-> FSub(Fin(p), fv) ]

\* the attributes after Mortgage(...) with arguments a over the daily table
\* mt
Attributes(a, mt, off) ==
  /\ asset_value = a.asset_value
  /\ birth_date = a.birth_date
  /\ current_date = a.current_date
  /\ household_gross_income = a.household_gross_income
  /\ fund_value = Fin(0)
  /\ initial_principal = a.principal
  /\ principal = a.principal
  /\ omxs30_change_multiplier = mt.omxs30_change_multiplier
  /\ bank_rate =
       [i \in 1..Len(mt.date) |->
          _calculate_daily_interest_rate(
            MultAdd(mt.policy_rate[i], a.interest_markup), mt.date[i].year)]
  /\ standard_rate = mt.standard_rate
  /\ historic_date_range = mt.date
  /\ days_offset = off
  /\ payoff_time = a.payoff_time
  /\ fund_fee = a.fund_fee
  /\ fraction_invested = a.fraction_invested
  /\ fund_tax_due = Fin(0)
  /\ master_table = << SeedRow(At(mt.date, off), a.principal, Fin(0)) >>
  /\ cumulative_interest = NoColumn
  /\ raised = "none"
  /\ returned = << >>

\* historic_tables is passed as an object that holds its main_table only
TableGiven ==
  /\ _new_omxs30 = << >>
  /\ _goverment_borrowing_rate = << >>
  /\ _consumer_price_index = << >>
  /\ _policy_rate = << >>
  /\ _old_omxs30 = << >>

\* the instance after Mortgage(...) with arguments a over the daily table mt
\* (historic_date_range[days_offset] raises IndexError outside the table
\* and the birth_date setter ValueError for a date that does not exist: no
\* instance)
Constructed(a, mt, off) ==
  /\ off \in (0 - Len(mt.date))..(Len(mt.date) - 1)
  /\ a.birth_date.year \in 1..9999
  /\ a.birth_date.month \in 1..12
  /\ a.birth_date.day \in
       1..DaysInMonth(a.birth_date.year, a.birth_date.month)
  /\ Attributes(a, mt, off)
  /\ TableGiven
  /\ other = << >>

Init ==
  \E a \in ConstructorArgs, start \in StartDates,
     off \in ConstructorOffsets :
    Constructed(a, MainTable(start, a.omx, a.policy, a.std), off)

(***************************************************************************)
(* Mortgage.add_master_row                                                 *)
(***************************************************************************)
\* idx = len(self.master_table) + self.days_offset
row_index(table) == Len(table) + days_offset

\* fund_value after the day's share of the yearly fund fee
fund_after_fee(fv) == FSub(fv, FDivInt(FScale(fv, fund_fee), 365))

\* multiplier if not multiplier in [0, np.inf] else 1
index_multiplier(m) ==
  IF (m.cls = "fin" /\ m.n = 0) \/ m.cls = "pinf" THEN Mult(1, 1) ELSE m

\* fund_value after the index development of the previous day
fund_after_index(fv, m) == FMul(fv, index_multiplier(m))

\* variant of first_day_of_month_rows that matches every row of the month
same_month_rows(table, new_date) ==
  { k \in 1..Len(table) : /\ table[k].date.year = new_date.year
                          /\ table[k].date.month = new_date.month }

\* master_table.query("date == @first_day_of_month"): the matching row indices
first_day_of_month_rows(table, new_date) ==
  { k \in 1..Len(table) : table[k].date = ReplaceDay1(new_date) }

\* principal p since the first day of the month, 0 without a row for that day
current_month_interest(table, new_date, p) ==
  LET rows == first_day_of_month_rows(table, new_date) IN
  IF rows = {} THEN 0
  ELSE p - table[CHOOSE k \in rows : \A j \in rows : k <= j].principal

\* variant of posted_payments that posts on every day
posted_payments_every_day(p, cmi, new_date) ==
  LET split == payment_split(p) IN
  [loan_payment |-> split.loan_payment + cmi,
   fund_investment |-> split.fund_investment]

\* variant of posted_payments that leaves the month's interest out of the
\* loan payment
posted_payments_without_interest(p, cmi, new_date) ==
  LET split == payment_split(p) IN
  IF ~is_month_end(new_date)
  THEN [loan_payment |-> 0, fund_investment |-> 0]
  ELSE [loan_payment |-> split.loan_payment,
        fund_investment |-> split.fund_investment]

\* payments posted on new_date: the split plus the month's interest on
\* month-end days, zero on every other day
posted_payments(p, cmi, new_date) ==
  LET split == payment_split(p) IN
  IF ~is_month_end(new_date)
  THEN [loan_payment |-> 0, fund_investment |-> 0]
  ELSE [loan_payment |-> split.loan_payment + cmi,
        fund_investment |-> split.fund_investment]

\* variant of fund_after_risk_cost that takes the risk cost every day
fund_after_risk_cost_every_day(fv, new_date) == FSub(fv, risk_cost(fv))

\* fund_value after the risk cost of the first day of a month
fund_after_risk_cost(fv, new_date) ==
  IF is_month_start(new_date) THEN FSub(fv, risk_cost(fv)) ELSE fv

\* fund_tax_due after the day's accruals
tax_accrued(due, fund_investment, fv, new_date, rate) ==
  LET d1 == FAdd(due, _standard_sum(Fin(fund_investment), new_date, rate)) IN
  IF is_year_start(new_date)
  THEN FAdd(d1, _standard_sum(fv, new_date, rate))
  ELSE d1

\* month in [1, 4, 7, 10] and is_month_end
is_tax_settlement(new_date) ==
  new_date.month \in {1, 4, 7, 10} /\ is_month_end(new_date)

\* variant of fund_and_tax that leaves the posted investment out of the fund
fund_and_tax_investment_dropped(f1, fund_investment, due0, new_date, rate) ==
  LET f3 == fund_after_risk_cost(f1, new_date)
      due == tax_accrued(due0, fund_investment, f3, new_date, rate)
  IN  IF is_tax_settlement(new_date)
      THEN [fund_value |-> FSub(f3, due), fund_tax_due |-> Fin(0)]
      ELSE [fund_value |-> f3, fund_tax_due |-> due]

\* fund_value and fund_tax_due at the end of the day, from the fund value
\* f1 after fee and index, the posted investment and the tax due so far
fund_and_tax(f1, fund_investment, due0, new_date, rate) ==
  LET f2 == FAdd(f1, Fin(fund_investment))
      f3 == fund_after_risk_cost(f2, new_date)
      due == tax_accrued(due0, fund_investment, f3, new_date, rate)
  IN  IF is_tax_settlement(new_date)
      THEN [fund_value |-> FSub(f3, due), fund_tax_due |-> Fin(0)]
      ELSE [fund_value |-> f3, fund_tax_due |-> due]

\* variant of concat_row that keeps the first row and the new row only
concat_row_onto_seed(table, new_row) == << table[1], new_row >>

\* pd.concat([self._master_table, new_row]).reset_index(drop=True)
concat_row(table, new_row) == Append(table, new_row)

\* variant of principal_at_date_lookup that applies the day's interest
\* before the date of the new row is read
principal_at_date_lookup_after_interest(p, idx) ==
  MulRat(p, At(bank_rate, idx - 1))

\* self.principal at the time historic_date_range[idx] is read: the lookup
\* is the first statement after idx, before any attribute is assigned
principal_at_date_lookup(p, idx) == p

\* variant of concat_cumulative_interest that leaves no cell of the column
\* with a value
concat_cumulative_interest_reset(col) ==
  IF col.present
  THEN [present |-> TRUE,
        values |-> [k \in 1..(Len(col.values) + 1) |-> NaN]]
  ELSE col

\* the column after pd.concat with a row that has no cumulative_interest
concat_cumulative_interest(col) ==
  IF col.present
  THEN [present |-> TRUE, values |-> Append(col.values, NaN)]
  ELSE col

\* variant of principal_after_interest that takes the multiplier of the day
\* being recorded
principal_after_interest_same_day(p, idx) == MulRat(p, At(bank_rate, idx))

\* self.principal *= self.bank_rate[idx - 1]
principal_after_interest(p, idx) == MulRat(p, At(bank_rate, idx - 1))

\* the attributes that the calls on an instance assign
loan_state ==
  [ principal |-> principal, fund_value |-> fund_value,
    fund_tax_due |-> fund_tax_due, master_table |-> master_table,
    cumulative_interest |-> cumulative_interest, raised |-> "none" ]

\* the loan state st after one call of add_master_row
add_master_row_on(st) ==
  LET idx == row_index(st.master_table)
      p0 == principal_at_date_lookup(st.principal, idx)
  IN
  IF idx >= Len(historic_date_range)
  THEN \* historic_date_range[idx] raises IndexError
       [st EXCEPT !.principal = p0, !.raised = "IndexError"]
  ELSE
    LET new_date == At(historic_date_range, idx)
        p1 == principal_after_interest(p0, idx)
        f1 == fund_after_index(fund_after_fee(st.fund_value),
                               At(omxs30_change_multiplier, idx - 1))
        new_current_month_interest ==
          current_month_interest(st.master_table, new_date, p1)
        payments == posted_payments(p1, new_current_month_interest, new_date)
        p2 == p1 - payments.loan_payment
        ft == fund_and_tax(f1, payments.fund_investment, st.fund_tax_due,
                           new_date, At(standard_rate, idx))
    IN  [ principal |-> p2,
          fund_value |-> ft.fund_value,
          fund_tax_due |-> ft.fund_tax_due,
          master_table |->
            concat_row(st.master_table,
                   [ date |-> new_date, principal |-> p2,
                     fund_value |-> ft.fund_value,
                     current_month_interest |-> new_current_month_interest,
                     loan_payment |-> payments.loan_payment,
                     fund_investment |-> payments.fund_investment,
                     principal_fund_delta |->
                       principal_fund_delta(p2, ft.fund_value) ]),
          cumulative_interest |->
            concat_cumulative_interest(st.cumulative_interest),
          raised |-> "none" ]

add_master_row ==
  \E st \in { add_master_row_on(loan_state) } :
    /\ principal' = st.principal
    /\ fund_value' = st.fund_value
    /\ fund_tax_due' = st.fund_tax_due
    /\ master_table' = st.master_table
    /\ cumulative_interest' = st.cumulative_interest
    /\ raised' = st.raised
    /\ returned' = << >>
    /\ UNCHANGED << params, tables, other >>

(***************************************************************************)
(* Mortgage.add_cumlative_interest, expand_master_table, summary_stats,    *)
(* max_start_offset                                                        *)
(***************************************************************************)
\* cumsum() over the month-end rows, at month-end row k: the row's
\* current_month_interest added to the sum at the month-end row before it
RECURSIVE month_end_cumsum(_, _)
month_end_cumsum(table, k) ==
  LET earlier == { j \in 1..(k - 1) : is_month_end(table[j].date) }
  IN  table[k].current_month_interest
        + (IF earlier = {} THEN 0
           ELSE CHOOSE sum \in
                  { month_end_cumsum(table, j) :
                      j \in { i \in earlier : \A h \in earlier : h <= i } } :
                  TRUE)

\* row k of the column after the .loc assignment: the running sum on a
\* month-end row, the value the row had on any other row (NaN without one)
cumulative_interest_assigned(table, col, k) ==
  IF is_month_end(table[k].date) THEN Fin(month_end_cumsum(table, k))
  ELSE IF col.present THEN col.values[k]
  ELSE NaN

\* row k of the column after the assignment and ffill(): the row's own
\* value, that of the row before it when it is NaN
RECURSIVE cumulative_interest_filled(_, _, _)
cumulative_interest_filled(table, col, k) ==
  IF k = 1 \/ cumulative_interest_assigned(table, col, k) # NaN
  THEN cumulative_interest_assigned(table, col, k)
  ELSE CHOOSE value \in
         { cumulative_interest_filled(table, col, j) : j \in {k - 1} } : TRUE

\* the loan state st after add_cumlative_interest
add_cumlative_interest_on(st) ==
  [st EXCEPT !.cumulative_interest =
     [present |-> TRUE,
      values |->
        [k \in 1..Len(st.master_table) |->
           cumulative_interest_filled(st.master_table,
                                      st.cumulative_interest, k)]]]

add_cumlative_interest ==
  \E st \in { add_cumlative_interest_on(loan_state) } :
    /\ principal' = st.principal
    /\ fund_value' = st.fund_value
    /\ fund_tax_due' = st.fund_tax_due
    /\ master_table' = st.master_table
    /\ cumulative_interest' = st.cumulative_interest
    /\ raised' = st.raised
    /\ returned' = << >>
    /\ UNCHANGED << params, tables, other >>

\* for _ in range(days): self.add_master_row(), ended by the first
\* exception; the days are taken in two halves, one after the other
RECURSIVE add_master_rows(_, _)
add_master_rows(st, days) ==
  IF days <= 0 \/ st.raised # "none" THEN st
  ELSE IF days = 1 THEN add_master_row_on(st)
  ELSE CHOOSE done \in
         { add_master_rows(half, days - days \div 2) :
             half \in { add_master_rows(st, days \div 2) } } : TRUE

\* the loan state st after expand_master_table(days)
expand_master_table_on(st, days) ==
  CHOOSE done \in
    { IF expanded.raised # "none" THEN expanded
      ELSE add_cumlative_interest_on(expanded) :
        expanded \in { add_master_rows(st, days) } } : TRUE

expand_master_table(days) ==
  \E st \in { expand_master_table_on(loan_state, days) } :
    /\ principal' = st.principal
    /\ fund_value' = st.fund_value
    /\ fund_tax_due' = st.fund_tax_due
    /\ master_table' = st.master_table
    /\ cumulative_interest' = st.cumulative_interest
    /\ raised' = st.raised
    /\ returned' = << >>
    /\ UNCHANGED << params, tables, other >>

\* expand_master_table() with days left None
expand_master_table_default == expand_master_table(payoff_time * 365)

\* len(self.bank_rate) - 25 * 365 - 1
max_start_offset == Len(bank_rate) - 25 * 365 - 1

\* 1-based rows whose |principal_fund_delta| equals the column's minimum,
\* which skips NaN
break_even_rows(table) ==
  LET numbers ==
        { k \in 1..Len(table) : FAbs(table[k].principal_fund_delta) # NaN }
  IN  { k \in numbers :
          \A j \in numbers :
            ~FLess(FAbs(table[j].principal_fund_delta),
                   FAbs(table[k].principal_fund_delta)) }

\* variant of first_index that takes the last of the rows
last_index(rows) == (CHOOSE k \in rows : \A j \in rows : j <= k) - 1

\* index.values[0]: the 0-based index of the first of the 1-based rows
first_index(rows) == (CHOOSE k \in rows : \A j \in rows : k <= j) - 1

\* the dict summary_stats returns from the table with its column
summary_stats_dict(table, column) ==
  LET break_even_index == first_index(break_even_rows(table))
      max_index == Len(table) - 1
  IN  [ years_to_break_even |-> Rat(break_even_index, 365),
        interest_paid_at_break_even |-> At(column, break_even_index),
        payoff_time |-> Rat(max_index, 365),
        max_principal_fund_delta |->
          At(table, max_index).principal_fund_delta,
        max_interest |-> At(column, max_index) ]

\* the loan state st with the column summary_stats reads
summary_stats_on(st) ==
  IF st.cumulative_interest.present THEN st
  ELSE add_cumlative_interest_on(st)

summary_stats ==
  \E st \in { summary_stats_on(loan_state) } :
    \E rows \in { break_even_rows(st.master_table) } :
      /\ principal' = st.principal
      /\ fund_value' = st.fund_value
      /\ fund_tax_due' = st.fund_tax_due
      /\ master_table' = st.master_table
      /\ cumulative_interest' = st.cumulative_interest
      \* break_even_index.values[0] raises IndexError without a row
      /\ raised' = IF rows = {} THEN "IndexError" ELSE "none"
      /\ returned' =
           IF rows = {} THEN << >>
           ELSE << summary_stats_dict(st.master_table,
                                      st.cumulative_interest.values) >>
      /\ UNCHANGED << params, tables, other >>

Next == add_master_row

Spec == Init /\ [][Next]_vars

(***************************************************************************)
(* Runs that also compute the cumulative interest and the summary.         *)
(***************************************************************************)
StatsArgs ==
  { [DefaultArgs EXCEPT !.fraction_invested = fr, !.interest_markup = k] :
      fr \in {Rat(0, 1), Rat(1, 2)},
      k \in { Mult(1, 100), Mult(0 - 695, 100 * 100) } }
  \cup
  { [DefaultArgs EXCEPT !.omx =
       [pattern |-> << Mult(98, 100) >>, special_idx |-> 2,
        special |-> MultNaN]] }

StatsInit ==
  \/ \E a \in StatsArgs :
       Constructed(a, MainTable(Date(2023, 1, 30), a.omx, a.policy, a.std), 0)
  \/ \E start \in { Date(1994, 6, 1), Date(2023, 12, 30) },
        off \in { MaxOffset, 0 - 1 } :
       Constructed(DefaultArgs,
                   MainTable(start, DefaultOmx, DefaultPolicy, DefaultStd),
                   off)

StatsNext ==
  \/ add_master_row
  \/ add_cumlative_interest
  \/ summary_stats
  \/ \E days \in 0..MaxExpandDays : expand_master_table(days)
  \/ expand_master_table_default

SpecStats == StatsInit /\ [][StatsNext]_vars

(***************************************************************************)
(* Runs over the birth date and the current date of the owner.             *)
(***************************************************************************)
BirthDates ==
  { Date(y, md[1], md[2]) :
      y \in FirstBirthYear..LastBirthYear,
      md \in { << 1, 1 >>, << 9, 2 >>, << 12, 31 >> } }
  \cup { Date(1996, 2, 29), Date(2000, 2, 29), Date(2006, 2, 28) }

CurrentDates ==
  { Date(2024, 9, 1), Date(2024, 9, 2), Date(2024, 9, 3), Date(2007, 9, 3),
    Date(2024, 2, 29), Date(2024, 12, 31), Date(2025, 1, 1) }

AgeInit ==
  \E birth \in BirthDates, now \in CurrentDates :
    Constructed([DefaultArgs EXCEPT !.birth_date = birth,
                                    !.current_date = now],
                TableOver(SubSeq(DateRange[Date(2023, 1, 30)], 1, AgeTableLen),
                          DefaultOmx, DefaultPolicy, DefaultStd),
                0)

\* values given to the birth_date setter: ISO dates, one of them not a
\* calendar day and one of a year that datetime.date does not hold
SetterDates ==
  { Date(1990, 9, 2), Date(2012, 12, 31), Date(2023, 2, 30), Date(0, 1, 1) }

\* Mortgage.birth_date setter: self._birth_date = date.fromisoformat(value),
\* which raises ValueError for a year outside 1..9999 and for a day that is
\* not in the calendar
set_birth_date(value) ==
  /\ IF /\ value.year \in 1..9999
        /\ value.month \in 1..12
        /\ value.day \in 1..DaysInMonth(value.year, value.month)
     THEN birth_date' = value /\ raised' = "none"
     ELSE birth_date' = birth_date /\ raised' = "ValueError"
  /\ UNCHANGED << asset_value, current_date, household_gross_income,
                  initial_principal, days_offset, payoff_time, fund_fee,
                  fraction_invested, historic_tables, tables, principal,
                  fund_value, fund_tax_due, master_table,
                  cumulative_interest, returned, other >>

AgeNext ==
  \/ add_master_row
  \/ \E value \in SetterDates : set_birth_date(value)

SpecAge == AgeInit /\ [][AgeNext]_vars

(***************************************************************************)
(* Runs of expand_master_table() over a whole payoff time.                 *)
(***************************************************************************)
ExpandArgs ==
  { [DefaultArgs EXCEPT !.payoff_time = 1, !.asset_value = 120000000,
                        !.fraction_invested = fr, !.policy = pr] :
      fr \in {Rat(0, 1), Rat(1, 2)},
      pr \in {DefaultPolicy} \cup PolicyChoices }

\* small offsets, the last row, and offsets around the last one a one-year
\* run fits in
ExpandOffsets ==
  ((0 - 1)..MaxLongOffset) \cup ((LongLen - 368)..(LongLen - 364))

ExpandInit ==
  \E a \in ExpandArgs, off \in ExpandOffsets :
    Constructed(a, TableOver(LongDateRange, a.omx, a.policy, a.std), off)

ExpandNext == expand_master_table_default

SpecExpand == ExpandInit /\ [][ExpandNext]_vars

(***************************************************************************)
(* Two Mortgage instances built over the same HistoricTables. The state    *)
(* variables hold the attributes of the instance the next call is made on; *)
(* other holds the attributes of the instance that waits.                  *)
(***************************************************************************)
\* the attributes of the instance the calls are made on
instance ==
  [ asset_value |-> asset_value, birth_date |-> birth_date,
    current_date |-> current_date,
    household_gross_income |-> household_gross_income,
    initial_principal |-> initial_principal, days_offset |-> days_offset,
    payoff_time |-> payoff_time, fund_fee |-> fund_fee,
    fraction_invested |-> fraction_invested,
    principal |-> principal, fund_value |-> fund_value,
    fund_tax_due |-> fund_tax_due, master_table |-> master_table,
    cumulative_interest |-> cumulative_interest, raised |-> raised,
    returned |-> returned, bank_rate |-> bank_rate ]

\* the attributes of an instance after Mortgage(...) with arguments a
InstanceOf(a, mt, off) ==
  [ asset_value |-> a.asset_value, birth_date |-> a.birth_date,
    current_date |-> a.current_date,
    household_gross_income |-> a.household_gross_income,
    initial_principal |-> a.principal, days_offset |-> off,
    payoff_time |-> a.payoff_time, fund_fee |-> a.fund_fee,
    fraction_invested |-> a.fraction_invested,
    principal |-> a.principal, fund_value |-> Fin(0),
    fund_tax_due |-> Fin(0),
    master_table |-> << SeedRow(At(mt.date, off), a.principal, Fin(0)) >>,
    cumulative_interest |-> NoColumn, raised |-> "none",
    returned |-> << >>,
    bank_rate |->
      [i \in 1..Len(mt.date) |->
         _calculate_daily_interest_rate(
           MultAdd(mt.policy_rate[i], a.interest_markup), mt.date[i].year)] ]

\* fund_value as an attribute of the class: one value for all instances
class_fund_value(inst) == fund_value

\* self.fund_value: an attribute of the instance
self_fund_value(inst) == inst.fund_value

\* the next call is made on the other instance: self is bound to it (the
\* arrays read from the shared historic_tables are equal in both)
switch_instance ==
  /\ other # << >>
  /\ asset_value' = other.asset_value
  /\ birth_date' = other.birth_date
  /\ current_date' = other.current_date
  /\ household_gross_income' = other.household_gross_income
  /\ initial_principal' = other.initial_principal
  /\ days_offset' = other.days_offset
  /\ payoff_time' = other.payoff_time
  /\ fund_fee' = other.fund_fee
  /\ fraction_invested' = other.fraction_invested
  /\ principal' = other.principal
  /\ fund_value' = self_fund_value(other)
  /\ fund_tax_due' = other.fund_tax_due
  /\ master_table' = other.master_table
  /\ cumulative_interest' = other.cumulative_interest
  /\ raised' = other.raised
  /\ returned' = other.returned
  /\ bank_rate' = other.bank_rate
  /\ other' = instance
  /\ UNCHANGED << omxs30_change_multiplier, standard_rate,
                  historic_date_range, historic_tables >>

\* the calendar days of the daily table the two instances share
SharedStart == Date(2023, 1, 29)
SharedDateRange ==
  [i \in 1..SharedTableLen |-> fromordinal(toordinal(SharedStart) + i - 1)]

\* pairs of constructor arguments and start offsets: instances that differ
\* in their loan, in their start offset, in their markup, and in nothing but
\* the moment of their construction
SharedPairs ==
  { [first |-> DefaultArgs, first_offset |-> 0,
     second |-> [DefaultArgs EXCEPT !.asset_value = 120000000,
                                    !.fraction_invested = Rat(1, 1),
                                    !.birth_date = Date(1990, 9, 2)],
     second_offset |-> 1],
    [first |-> DefaultArgs, first_offset |-> 0,
     second |-> DefaultArgs, second_offset |-> 1],
    [first |-> DefaultArgs, first_offset |-> 0,
     second |-> DefaultArgs, second_offset |-> 0],
    [first |-> [DefaultArgs EXCEPT !.payoff_time = 100], first_offset |-> 1,
     second |-> [DefaultArgs EXCEPT !.household_gross_income = 16800000],
     second_offset |-> 0],
    [first |-> DefaultArgs, first_offset |-> 0,
     second |-> [DefaultArgs EXCEPT !.current_date = Date(2022, 3, 14)],
     second_offset |-> 0],
    [first |-> DefaultArgs, first_offset |-> 1,
     second |-> [DefaultArgs EXCEPT !.current_date = Date(2024, 9, 2)],
     second_offset |-> 1],
    [first |-> DefaultArgs, first_offset |-> 0,
     second |-> [DefaultArgs EXCEPT !.interest_markup = Mult(2, 100)],
     second_offset |-> 0 - 1] }

SharedInit ==
  \E pair \in SharedPairs :
    \E mt \in { TableOver(SharedDateRange, DefaultOmx, DefaultPolicy,
                          DefaultStd) } :
      /\ Attributes(pair.first, mt, pair.first_offset)
      /\ TableGiven
      /\ other = InstanceOf(pair.second, mt, pair.second_offset)

SharedNext == add_master_row \/ switch_instance

SpecShared == SharedInit /\ [][SharedNext]_vars

(***************************************************************************)
(* HistoricTables: data frames as sequences of rows, one record per row.   *)
(* The value columns hold fractions [cls, n, d]; NaN is MultNaN.           *)
(***************************************************************************)
\* the missing date pandas leaves in a row that was given none
NaT == [year |-> 0, month |-> 0, day |-> 0]

\* Timestamp comparison a < b, False when either is NaT
DateLess(a, b) ==
  /\ a # NaT
  /\ b # NaT
  /\ \/ a.year < b.year
     \/ a.year = b.year /\ a.month < b.month
     \/ a.year = b.year /\ a.month = b.month /\ a.day < b.day

\* (b - a).days
days_between(a, b) == toordinal(b) - toordinal(a)

\* the earlier and the later of the two dates of a pair
earlier_of(pair) == IF DateLess(pair[2], pair[1]) THEN pair[2] ELSE pair[1]
later_of(pair) == IF DateLess(pair[1], pair[2]) THEN pair[2] ELSE pair[1]

\* the earliest and the latest date of the rows lo to hi of a frame
RECURSIVE earliest_in(_, _, _)
earliest_in(df, lo, hi) ==
  IF lo = hi THEN df[lo].date
  ELSE CHOOSE out \in
         { earlier_of(pair) :
             pair \in { << earliest_in(df, lo, (lo + hi) \div 2),
                           earliest_in(df, (lo + hi) \div 2 + 1, hi) >> } } :
         TRUE

RECURSIVE latest_in(_, _, _)
latest_in(df, lo, hi) ==
  IF lo = hi THEN df[lo].date
  ELSE CHOOSE out \in
         { later_of(pair) :
             pair \in { << latest_in(df, lo, (lo + hi) \div 2),
                           latest_in(df, (lo + hi) \div 2 + 1, hi) >> } } :
         TRUE

\* df["date"].min() and df["date"].max(): NaT for a frame without rows
\* (the builtin min() of line 46 raises there, see standard_rate_raises)
date_min(df) == IF Len(df) = 0 THEN NaT ELSE earliest_in(df, 1, Len(df))
date_max(df) == IF Len(df) = 0 THEN NaT ELSE latest_in(df, 1, Len(df))

\* pd.date_range(lo, hi): every calendar day from lo to hi, both included
date_range(lo, hi) ==
  [i \in 1..(days_between(lo, hi) + 1) |-> fromordinal(toordinal(lo) + i - 1)]

\* df.sort_values("date").reset_index(drop=True), dates being unique
sort_values(df) ==
  LET n == Len(df)
      rank(i) == Cardinality({ j \in 1..n : DateLess(df[j].date, df[i].date) })
  IN  SubSeq([k \in 1..n |-> df[CHOOSE i \in 1..n : rank(i) = k - 1]], 1, n)

\* merge(how="left") onto the day d with no ffill() after it: column c of
\* the row of df dated d
merged_only(df, c, d) ==
  LET held == { j \in 1..Len(df) : df[j].date = d /\ ~IsNaN(df[j][c]) }
  IN  IF held = {} THEN MultNaN ELSE df[CHOOSE j \in held : TRUE][c]

\* merge(how="left") onto the day d followed by ffill(): column c of the
\* latest row of df dated on or before d that holds a value
ffilled(df, c, d) ==
  LET held == { j \in 1..Len(df) :
                  ~DateLess(d, df[j].date) /\ ~IsNaN(df[j][c]) }
  IN  IF held = {} THEN MultNaN
      ELSE df[CHOOSE j \in held :
                \A k \in held : ~DateLess(df[j].date, df[k].date)][c]

\* the frame data_frame left-merged onto the days and forward filled
merged_onto(days, data_frame) ==
  SubSeq([i \in 1..Len(days) |->
            [c \in DOMAIN data_frame[1] |->
               IF c = "date" THEN days[i]
               ELSE ffilled(data_frame, c, days[i])]],
         1, Len(days))

\* HistoricTables._expand_date_range of a frame with rows
_expand_date_range(data_frame) ==
  merged_onto(date_range(date_min(data_frame), date_max(data_frame)),
              data_frame)

\* float division a / b of numpy, for values with positive denominators
MultDiv(a, b) ==
  IF IsNaN(a) \/ IsNaN(b) THEN MultNaN
  ELSE IF IsInf(a)
  THEN (IF IsInf(b) THEN MultNaN
        ELSE IF (a.cls = "ninf") # (b.n < 0) THEN MultNegInf
        ELSE MultPosInf)
  ELSE IF IsInf(b) THEN Mult(0, 1)
  ELSE IF b.n = 0
  THEN (IF a.n = 0 THEN MultNaN
        ELSE IF a.n > 0 THEN MultPosInf ELSE MultNegInf)
  ELSE IF b.n < 0 THEN Mult(0 - a.n * b.d, 0 - a.d * b.n)
  ELSE Mult(a.n * b.d, a.d * b.n)

\* x / 100
Hundredth(x) == IF x.cls # "fin" THEN x ELSE Mult(x.n, x.d * 100)

\* x + 0.01
PlusHundredth(x) ==
  IF x.cls # "fin" THEN x
  ELSE IF x.d % 100 = 0 THEN Mult(x.n + x.d \div 100, x.d)
  ELSE Mult(x.n * 100 + x.d, x.d * 100)

\* x / 2
Halved(x) == IF x.cls # "fin" THEN x ELSE Mult(x.n, x.d * 2)

\* a < b, False when either is NaN
MultLess(a, b) ==
  /\ ~IsNaN(a)
  /\ ~IsNaN(b)
  /\ IF IsInf(a) \/ IsInf(b)
     THEN a.cls # b.cls /\ (a.cls = "ninf" \/ b.cls = "pinf")
     ELSE a.n * b.d < b.n * a.d

\* a == b for values that are not NaN
MultSame(a, b) ==
  /\ ~IsNaN(a)
  /\ ~IsNaN(b)
  /\ IF IsInf(a) \/ IsInf(b) THEN a.cls = b.cls
     ELSE a.n * b.d = b.n * a.d

\* HistoricTables._minimum_standard_rate
_minimum_standard_rate == Mult(125, 10000)

\* the lambda of standard_rate: the minimum when x is below it
at_least_minimum(x) ==
  IF MultLess(x, _minimum_standard_rate) THEN _minimum_standard_rate ELSE x

\* end_value / start_value in float arithmetic, for values with positive
\* denominators: a zero keeps its sign as cls "zero" or "negzero", and
\* x / 0 is an infinity of the sign of x (NaN for 0 / 0)
rate_ratio(start_value, end_value) ==
  LET negative(x) == x.cls = "ninf" \/ (x.cls = "fin" /\ x.n < 0)
      opposite == negative(start_value) # negative(end_value)
      ratio(c, n, d) == [cls |-> c, n |-> n, d |-> d]
  IN  IF IsNaN(start_value) \/ IsNaN(end_value) THEN ratio("nan", 0, 1)
      ELSE IF IsInf(start_value)
      THEN (IF IsInf(end_value) THEN ratio("nan", 0, 1)
            ELSE IF opposite THEN ratio("negzero", 0, 1)
            ELSE ratio("zero", 0, 1))
      ELSE IF IsInf(end_value)
      THEN (IF opposite THEN ratio("ninf", 0, 1) ELSE ratio("pinf", 0, 1))
      ELSE IF start_value.n = 0
      THEN (IF end_value.n = 0 THEN ratio("nan", 0, 1)
            ELSE IF end_value.n < 0 THEN ratio("ninf", 0, 1)
            ELSE ratio("pinf", 0, 1))
      ELSE IF end_value.n = 0
      THEN (IF opposite THEN ratio("negzero", 0, 1) ELSE ratio("zero", 0, 1))
      ELSE IF start_value.n < 0
      THEN ratio("fin", 0 - end_value.n * start_value.d,
                 0 - end_value.d * start_value.n)
      ELSE ratio("fin", end_value.n * start_value.d,
                 end_value.d * start_value.n)

\* HistoricTables._calculate_rate_of_change on Python numbers:
\* (end_value / start_value) ** (1 / time_delta), a finite result kept as
\* the root it is. A division by zero and a negative power of 0 raise
\* ZeroDivisionError; a root of a negative number is a complex number; a
\* power of an infinity is an infinity or 0
_calculate_rate_of_change(start_value, end_value, time_delta) ==
  LET out(c) == [cls |-> c, n |-> 0, d |-> 1, root |-> 1]
      whole(k) == [cls |-> "fin", n |-> k, d |-> 1, root |-> 1]
      r == rate_ratio(start_value, end_value)
  IN  IF (start_value.cls = "fin" /\ start_value.n = 0) \/ time_delta = 0
      THEN out("ZeroDivisionError")
      ELSE IF r.cls = "nan" THEN out("nan")
      ELSE IF r.cls = "pinf"
      THEN (IF time_delta > 0 THEN out("pinf") ELSE whole(0))
      ELSE IF r.cls = "ninf"
      THEN (IF time_delta = 1 THEN out("ninf")
            ELSE IF time_delta > 0 THEN out("pinf")
            ELSE whole(0))
      ELSE IF r.cls \in { "zero", "negzero" }
      THEN (IF time_delta > 0 THEN whole(0) ELSE out("ZeroDivisionError"))
      ELSE IF r.n < 0 /\ time_delta \notin {1, 0 - 1}
      THEN [cls |-> "complex", n |-> r.n, d |-> r.d, root |-> time_delta]
      ELSE [cls |-> "fin", n |-> r.n, d |-> r.d, root |-> time_delta]

\* HistoricTables._calculate_rate_of_change on the columns of a frame, row by
\* row in numpy arithmetic: 1 / time_delta is inf for 0 days, a power of an
\* infinity or of 0 is an infinity or 0, a root of a negative number is NaN
Series_calculate_rate_of_change(start_value, end_value, time_delta) ==
  LET out(c) == [cls |-> c, n |-> 0, d |-> 1, root |-> 1]
      whole(k) == [cls |-> "fin", n |-> k, d |-> 1, root |-> 1]
      r == rate_ratio(start_value, end_value)
      size(x) == IF x < 0 THEN 0 - x ELSE x
  IN  IF r.cls = "nan" THEN out("nan")
      ELSE IF time_delta = 0
      THEN (IF r.cls \in { "pinf", "ninf" } THEN out("pinf")
            ELSE IF r.cls \in { "zero", "negzero" } THEN whole(0)
            ELSE IF size(r.n) > size(r.d) THEN out("pinf")
            ELSE IF size(r.n) < size(r.d) THEN whole(0)
            ELSE whole(1))
      ELSE IF r.cls = "pinf"
      THEN (IF time_delta > 0 THEN out("pinf") ELSE whole(0))
      ELSE IF r.cls = "ninf"
      THEN (IF time_delta = 1 THEN out("ninf")
            ELSE IF time_delta > 0 THEN out("pinf")
            ELSE whole(0))
      ELSE IF r.cls = "zero"
      THEN (IF time_delta > 0 THEN whole(0) ELSE out("pinf"))
      ELSE IF r.cls = "negzero"
      THEN (IF time_delta > 0 THEN whole(0)
            ELSE IF time_delta = 0 - 1 THEN out("ninf")
            ELSE out("pinf"))
      ELSE IF r.n < 0 /\ time_delta \notin {1, 0 - 1}
      THEN out("nan")
      ELSE [cls |-> "fin", n |-> r.n, d |-> r.d, root |-> time_delta]

\* HistoricTables.omxs30: the old closes, then the new ones after the old
\* last date, daily, as day-over-day multipliers
HistoricTables_omxs30 ==
  LET old_omxs30_last_date == date_max(_old_omxs30)
      new_omxs30_data ==
        SelectSeq(_new_omxs30,
                  LAMBDA r : DateLess(old_omxs30_last_date, r.date))
      closes == sort_values(_old_omxs30 \o new_omxs30_data)
      renamed == [i \in 1..Len(closes) |->
                    [date |-> closes[i].date, omxs30 |-> closes[i].close]]
  IN  CHOOSE out \in
        { SelectSeq(
            [i \in 1..Len(daily) |->
               [date |-> daily[i].date,
                omxs30_change_multiplier |->
                  IF i = Len(daily) THEN MultNaN
                  ELSE MultDiv(daily[i + 1].omxs30, daily[i].omxs30)]],
            LAMBDA r : ~IsNaN(r.omxs30_change_multiplier)) :
          daily \in { _expand_date_range(renamed) } } : TRUE

\* HistoricTables.government_borrowing_rate: current_year_average dropped,
\* rows sorted, percent turned into a fraction
HistoricTables_government_borrowing_rate ==
  LET sorted == sort_values(_goverment_borrowing_rate)
  IN  SubSeq([i \in 1..Len(sorted) |->
                [date |-> sorted[i].date,
                 government_borrowing_rate |->
                   Hundredth(sorted[i].government_borrowing_rate)]],
             1, Len(sorted))

\* the rate that enters the standard rate of the row i of the daily
\* government borrowing rate: shift(1), the value of the row before
shifted_rate(daily, i) ==
  IF i = 1 THEN MultNaN ELSE daily[i - 1].government_borrowing_rate

\* lines 136 to 153 of standard_rate: one row dated 1 January for each
\* 30 November of the daily government borrowing rate, and the latest of
\* them once more, dated 31 December
standard_rate_rows ==
  CHOOSE out \in
    { LET dated ==
            [i \in 1..Len(daily) |->
               [date |->
                  IF daily[i].date.month = 11 /\ daily[i].date.day = 30
                  THEN Date(daily[i].date.year + 1, 1, 1) ELSE NaT,
                standard_rate |->
                  at_least_minimum(PlusHundredth(shifted_rate(daily, i)))]]
          kept == SelectSeq(dated, LAMBDA r : r.date # NaT
                                              /\ ~IsNaN(r.standard_rate))
          max_date ==
            IF kept = << >> THEN << >>
            ELSE LET last == date_max(kept)
                 IN  [i \in 1..1 |->
                        [date |-> Date(last.year, 12, 31),
                         standard_rate |->
                           kept[CHOOSE j \in 1..Len(kept) :
                                  kept[j].date = last].standard_rate]]
      IN  kept \o max_date :
      daily \in
        { _expand_date_range(HistoricTables_government_borrowing_rate) } } :
    TRUE

\* the mask of line 155 with the month after July as its first month
is_after_july(dt) == dt.month > 7

\* the mask of line 155: the months after June
is_second_half(dt) == dt.month > 6

\* HistoricTables.standard_rate, when the rows of line 153 are not empty:
\* they are made daily and halved in the second half of each year
HistoricTables_standard_rate ==
  CHOOSE out \in
    { SubSeq([i \in 1..Len(daily) |->
                [date |-> daily[i].date,
                 standard_rate |->
                   IF is_second_half(daily[i].date)
                   THEN Halved(daily[i].standard_rate)
                   ELSE daily[i].standard_rate]],
             1, Len(daily)) :
      daily \in { _expand_date_range(standard_rate_rows) } } : TRUE

\* HistoricTables.consumer_price_index
HistoricTables_consumer_price_index ==
  LET sorted == sort_values(_consumer_price_index)
  IN  SelectSeq(
        [i \in 1..Len(sorted) |->
           [date |-> sorted[i].date,
            consumer_price_index_change_multiplier |->
              IF i = Len(sorted)
              THEN [cls |-> "nan", n |-> 0, d |-> 1, root |-> 1]
              ELSE Series_calculate_rate_of_change(
                     sorted[i].consumer_price_index,
                     sorted[i + 1].consumer_price_index,
                     days_between(sorted[i].date, sorted[i + 1].date))]],
        LAMBDA r : ~IsNaN(r.consumer_price_index_change_multiplier))

\* HistoricTables.policy_rate
HistoricTables_policy_rate ==
  LET sorted == sort_values(_policy_rate)
  IN  SubSeq([i \in 1..Len(sorted) |->
                [date |-> sorted[i].date,
                 policy_rate |-> Hundredth(sorted[i].policy_rate)]],
             1, Len(sorted))

\* HistoricTables._min_max_date_range over the three frames it checks
\* (pd.concat of the date columns: a frame without rows adds no date)
min_max_date_range_of(cpi, std, omx) ==
  LET ends(df) ==
        IF Len(df) = 0 THEN << >>
        ELSE << [date |-> date_min(df)], [date |-> date_max(df)] >>
  IN  CHOOSE out \in
        { date_range(date_min(dates), date_max(dates)) :
            dates \in { ends(cpi) \o ends(std) \o ends(omx) } } : TRUE

\* the index of the latest row of the sorted frame df dated on or before d,
\* 0 when there is none
row_on_or_before(df, d) ==
  IF Len(df) = 0 \/ DateLess(d, df[1].date) THEN 0
  ELSE LET at == days_between(df[1].date, d) + 1
           guess == IF at > Len(df) THEN Len(df) ELSE at
       IN  IF /\ ~DateLess(d, df[guess].date)
              /\ (guess = Len(df) \/ DateLess(d, df[guess + 1].date))
           THEN guess
           ELSE CHOOSE j \in 1..Len(df) :
                  /\ ~DateLess(d, df[j].date)
                  /\ (j = Len(df) \/ DateLess(d, df[j + 1].date))

\* column c on the day d after the left merge of the sorted frame df onto
\* the days from first on and ffill()
merged_filled(df, c, first, d) ==
  LET j == row_on_or_before(df, d)
  IN  IF j = 0 \/ DateLess(df[j].date, first)
      THEN MultNaN
      ELSE IF ~IsNaN(df[j][c]) THEN df[j][c]
      ELSE ffilled(SelectSeq(df, LAMBDA r : ~DateLess(r.date, first)), c, d)

\* dropna() of main_table with the equity multiplier as its only subset
populated_index_only(r) == ~IsNaN(r.omxs30_change_multiplier)

\* dropna() of main_table: the rows that hold a value in every column
populated(r) ==
  /\ ~IsNaN(r.omxs30_change_multiplier)
  /\ ~IsNaN(r.policy_rate)
  /\ ~IsNaN(r.standard_rate)
  /\ ~IsNaN(r.consumer_price_index_change_multiplier)

\* query("date < @now")
before_now(d, now) == DateLess(d, now)

\* HistoricTables.main_table, when standard_rate does not raise
HistoricTables_main_table ==
  CHOOSE out \in
    { LET days == min_max_date_range_of(f.cpi, f.std, f.omx)
          now == date_max(f.omx)
          filled ==
            [i \in 1..Len(days) |->
               [date |-> days[i],
                omxs30_change_multiplier |->
                  merged_filled(f.omx, "omxs30_change_multiplier",
                                days[1], days[i]),
                policy_rate |->
                  merged_filled(f.policy, "policy_rate", days[1], days[i]),
                standard_rate |->
                  merged_filled(f.std, "standard_rate", days[1], days[i]),
                consumer_price_index_change_multiplier |->
                  merged_filled(f.cpi,
                                "consumer_price_index_change_multiplier",
                                days[1], days[i])]]
      IN  SelectSeq(filled,
                    LAMBDA r : populated(r) /\ before_now(r.date, now)) :
      f \in { [omx |-> HistoricTables_omxs30,
               policy |-> HistoricTables_policy_rate,
               std |-> HistoricTables_standard_rate,
               cpi |-> HistoricTables_consumer_price_index] } } : TRUE

\* HistoricTables._min_max_date_range
_min_max_date_range ==
  min_max_date_range_of(HistoricTables_consumer_price_index,
                        HistoricTables_standard_rate, HistoricTables_omxs30)

\* min() of line 46 has nothing to take the minimum of
standard_rate_raises == standard_rate_rows = << >>

(***************************************************************************)
(* Calls on a HistoricTables instance; the Mortgage is left alone.         *)
(***************************************************************************)
mortgage_state ==
  << principal, fund_value, fund_tax_due, master_table, cumulative_interest >>

read_omxs30 ==
  /\ _old_omxs30 # << >>
  /\ returned' = << HistoricTables_omxs30 >>
  /\ raised' = "none"
  /\ UNCHANGED << params, tables, mortgage_state, other >>

read_government_borrowing_rate ==
  /\ _goverment_borrowing_rate # << >>
  /\ returned' = << HistoricTables_government_borrowing_rate >>
  /\ raised' = "none"
  /\ UNCHANGED << params, tables, mortgage_state, other >>

read_standard_rate ==
  /\ _goverment_borrowing_rate # << >>
  /\ IF standard_rate_raises
     THEN returned' = << >> /\ raised' = "ValueError"
     ELSE returned' = << HistoricTables_standard_rate >> /\ raised' = "none"
  /\ UNCHANGED << params, tables, mortgage_state, other >>

read_consumer_price_index ==
  /\ _consumer_price_index # << >>
  /\ returned' = << HistoricTables_consumer_price_index >>
  /\ raised' = "none"
  /\ UNCHANGED << params, tables, mortgage_state, other >>

read_policy_rate ==
  /\ _policy_rate # << >>
  /\ returned' = << HistoricTables_policy_rate >>
  /\ raised' = "none"
  /\ UNCHANGED << params, tables, mortgage_state, other >>

call_min_max_date_range ==
  /\ _old_omxs30 # << >>
  /\ IF standard_rate_raises
     THEN returned' = << >> /\ raised' = "ValueError"
     ELSE returned' = << _min_max_date_range >> /\ raised' = "none"
  /\ UNCHANGED << params, tables, mortgage_state, other >>

read_main_table ==
  /\ _old_omxs30 # << >>
  /\ IF standard_rate_raises
     THEN returned' = << >> /\ raised' = "ValueError"
     ELSE returned' = << HistoricTables_main_table >> /\ raised' = "none"
  /\ UNCHANGED << params, tables, mortgage_state, other >>

\* HistoricTables._expand_date_range(data_frame) on a frame with rows
call_expand_date_range(data_frame) ==
  /\ data_frame # << >>
  /\ returned' = << _expand_date_range(data_frame) >>
  /\ raised' = "none"
  /\ UNCHANGED << params, tables, mortgage_state, other >>

(***************************************************************************)
(* HistoricTables instances over small series.                             *)
(***************************************************************************)
\* rows of the two equity index frames: closes in points
Close(y, m, d, points) == [date |-> Date(y, m, d), close |-> Mult(points, 1)]

OmxFrames ==
  { \* the new frame repeats the last old day, then skips a weekend
    [old |-> << Close(2023, 6, 28, 2200), Close(2023, 6, 29, 2211),
                Close(2023, 6, 30, 2189) >>,
     new |-> << Close(2023, 6, 30, 9999), Close(2023, 7, 3, 2200),
                Close(2023, 7, 4, 2222) >>],
    \* across the turn of a year
    [old |-> << Close(2022, 12, 29, 2000), Close(2022, 12, 30, 2040) >>,
     new |-> << Close(2023, 1, 2, 2040), Close(2023, 1, 3, 2000) >>],
    \* nothing new after the old last day
    [old |-> << Close(2023, 3, 1, 2100), Close(2023, 3, 3, 2121) >>,
     new |-> << Close(2023, 3, 2, 5) >>] }

\* rows of the government borrowing rate frame: percent in hundredths
Gbr(y, m, d, hundredths) ==
  [date |-> Date(y, m, d),
   government_borrowing_rate |-> Mult(hundredths, 100),
   current_year_average |-> Mult(hundredths + 1, 100)]

GbrFrames ==
  { << Gbr(2022, 11, 24, 200), Gbr(2022, 12, 1, 210) >>,
    \* an observation dated 30 November
    << Gbr(2022, 11, 23, 10), Gbr(2022, 11, 30, 50), Gbr(2022, 12, 7, 60) >>,
    \* two years, rows out of order
    << Gbr(2022, 12, 2, 262), Gbr(2021, 11, 26, 20), Gbr(2022, 6, 10, 180) >>,
    \* the first row dated 30 November
    << Gbr(2022, 11, 30, 100), Gbr(2022, 12, 5, 120) >>,
    << Gbr(2021, 11, 30, 30), Gbr(2022, 12, 9, 200) >>,
    \* no 30 November in the range
    << Gbr(2022, 12, 1, 100), Gbr(2023, 1, 10, 110) >> }

\* rows of the consumer price index frame: index level in hundredths
Cpi(y, m, d, hundredths) ==
  [date |-> Date(y, m, d), consumer_price_index |-> Mult(hundredths, 100)]

CpiFrames ==
  { << Cpi(2022, 12, 1, 38000), Cpi(2023, 7, 1, 38400),
       Cpi(2023, 8, 1, 38400) >>,
    << Cpi(2023, 7, 15, 40100), Cpi(2023, 6, 29, 39800) >>,
    \* a single observation: the property returns a frame without rows
    << Cpi(2023, 6, 1, 39000) >> }

\* rows of the policy rate frame: percent in hundredths
Policy(y, m, d, hundredths) ==
  [date |-> Date(y, m, d), policy_rate |-> Mult(hundredths, 100)]

PolicyFrames ==
  { << Policy(2022, 1, 3, 0), Policy(2023, 6, 29, 375) >>,
    << Policy(2023, 7, 1, 375) >> }

TablesInit ==
  /\ \E omx \in OmxFrames :
       _old_omxs30 = omx.old /\ _new_omxs30 = omx.new
  /\ _goverment_borrowing_rate \in GbrFrames
  /\ _consumer_price_index \in CpiFrames
  /\ _policy_rate \in PolicyFrames
  /\ Attributes(DefaultArgs,
                MainTable(Date(2023, 1, 30), DefaultOmx, DefaultPolicy,
                          DefaultStd), 0)
  /\ other = << >>

TablesNext ==
  \/ read_omxs30
  \/ read_government_borrowing_rate
  \/ read_standard_rate
  \/ read_consumer_price_index
  \/ read_policy_rate
  \/ call_min_max_date_range
  \/ read_main_table
  \/ \E data_frame \in { _new_omxs30, _goverment_borrowing_rate,
                          _consumer_price_index } :
       call_expand_date_range(data_frame)

SpecTables == TablesInit /\ [][TablesNext]_vars

(***************************************************************************)
(* Mortgage._calculate_daily_interest_rate                                 *)
(***************************************************************************)
\* the rows of main_table the lambda of __init__ is applied to: one policy
\* rate (in percent in the raw frame) dated in each year
RateYears == FirstRateYear..LastRateYear

RateInit ==
  /\ \E y \in RateYears, h \in RateHundredths :
       _policy_rate = << Policy(y, 7, 1, h) >>
  /\ _new_omxs30 = << >>
  /\ _goverment_borrowing_rate = << >>
  /\ _consumer_price_index = << >>
  /\ _old_omxs30 = << >>
  /\ Attributes(DefaultArgs,
                MainTable(Date(2023, 1, 30), DefaultOmx, DefaultPolicy,
                          DefaultStd), 0)
  /\ other = << >>

\* lambda x: self._calculate_daily_interest_rate(
\*     x["policy_rate"] + interest_markup, x["date"].year)
\* on a row of the policy-rate table
call_calculate_daily_interest_rate(interest_markup) ==
  \E x \in { HistoricTables_policy_rate[1] } :
    \E yearly_interest_rate \in { MultAdd(x.policy_rate, interest_markup) } :
      /\ returned' =
           << [ yearly_interest_rate |-> yearly_interest_rate,
                year |-> x.date.year,
                daily_interest_rate |->
                  _calculate_daily_interest_rate(yearly_interest_rate,
                                                 x.date.year) ] >>
      /\ raised' = "none"
      /\ UNCHANGED << params, tables, mortgage_state, other >>

\* HistoricTables._calculate_rate_of_change(start_value, end_value,
\* time_delta) called on numbers
call_calculate_rate_of_change(start_value, end_value, time_delta) ==
  \E rate_of_change \in
       { _calculate_rate_of_change(start_value, end_value, time_delta) } :
    /\ IF rate_of_change.cls = "ZeroDivisionError"
       THEN raised' = "ZeroDivisionError" /\ returned' = returned
       ELSE raised' = "none"
            /\ returned' = << [rate_of_change |-> rate_of_change] >>
    /\ UNCHANGED << params, tables, mortgage_state, other >>

RateNext ==
  \/ \E interest_markup \in InterestMarkups :
       call_calculate_daily_interest_rate(interest_markup)
  \/ \E start_value \in { Mult(0, 1), Mult(100, 1), MultPosInf },
        end_value \in { Mult(0, 1), Mult(200, 1), Mult(0 - 5, 1),
                        MultPosInf },
        time_delta \in { 0, 1, 4, 0 - 4 } :
       call_calculate_rate_of_change(start_value, end_value, time_delta)

SpecRate == RateInit /\ [][RateNext]_vars

(***************************************************************************)
(* Properties of the ledger.                                               *)
(***************************************************************************)
\* ledger rows after the seed row (row k is the row appended by call k - 1)
StepRows == 2..Len(master_table)

\* index into the daily table of ledger row k
IdxOf(k) == k - 1 + days_offset

\* principal of row k after the day's interest and before its payment
PrincipalAfterInterest(k) ==
  MulRat(master_table[k - 1].principal, At(bank_rate, IdxOf(k) - 1))

\* C1: the ledger starts with the seed row alone and every successful
\* add_master_row call appends exactly one row, so that N calls leave N + 1
\* rows.
C1_OneRowPerCall ==
  /\ Len(master_table) = 1
  /\ [][raised' = "none" => Len(master_table') = Len(master_table) + 1]_vars

C1_Witness == Len(master_table) = TableLen /\ days_offset = 0

\* C2: row k of the ledger carries the date of daily table row
\* days_offset + k, and every row is dated one calendar day after the row
\* before it.
C2_RowDates ==
  \A k \in 1..Len(master_table) :
    /\ master_table[k].date = At(historic_date_range, days_offset + k - 1)
    /\ k > 1 => master_table[k].date = NextDay(master_table[k - 1].date)

\* C3: every ledger row dated the first day of a month, the seed row
\* included, has current_month_interest 0.
C3_FirstOfMonthZero ==
  \A k \in 1..Len(master_table) :
    master_table[k].date.day = 1 => master_table[k].current_month_interest = 0

\* C4: a row of a day that is not a month end records no loan payment and
\* no fund investment; its principal is the previous principal with the
\* day's interest, and its fund value is the previous fund value after fee,
\* index change and (on the first of a month) risk cost.
C4_NoPaymentOffMonthEnd ==
  \A k \in StepRows :
    ~is_month_end(master_table[k].date) =>
      /\ master_table[k].loan_payment = 0
      /\ master_table[k].fund_investment = 0
      /\ master_table[k].principal = PrincipalAfterInterest(k)
      /\ master_table[k].fund_value =
           fund_after_risk_cost(
             fund_after_index(fund_after_fee(master_table[k - 1].fund_value),
                              At(omxs30_change_multiplier, IdxOf(k) - 1)),
             master_table[k].date)

C4_Witness ==
  \E k \in StepRows :
    /\ ~is_month_end(master_table[k].date)
    /\ is_month_end(master_table[k - 1].date)
    /\ k > 2
    /\ master_table[k - 1].loan_payment > 0
    /\ master_table[k - 1].fund_investment > 0
    /\ master_table[k].principal > master_table[k - 1].principal

\* C5: on a month-end day the posted fund investment is
\* (initial_principal / (payoff_time * 12) - minimum_monthly_payment)
\* * fraction_invested and the posted loan payment is
\* initial_principal / (payoff_time * 12) - fund_investment
\* + current_month_interest, the minimum taken on the principal after the
\* day's interest.
C5_MonthEndPayments ==
  \A k \in StepRows :
    is_month_end(master_table[k].date) =>
      LET total == initial_principal \div (payoff_time * 12)
          minimum == minimum_monthly_payment(PrincipalAfterInterest(k))
          investment == MulRat(total - minimum, fraction_invested)
      IN  /\ master_table[k].fund_investment = investment
          /\ master_table[k].loan_payment =
               total - investment + master_table[k].current_month_interest

C5_Witness ==
  /\ \E k \in StepRows :
       /\ is_month_end(master_table[k].date)
       /\ master_table[k].current_month_interest > 0
       /\ master_table[k].fund_investment > 0
       /\ minimum_monthly_payment(PrincipalAfterInterest(k)) > 0
  /\ \E k \in StepRows :
       /\ is_month_end(master_table[k].date)
       /\ minimum_monthly_payment(PrincipalAfterInterest(k)) >
            minimum_monthly_payment(master_table[k - 1].principal)

\* C6: on a month-end day the loan share of the payment (the posted loan
\* payment less the absorbed month interest) is at least the minimum monthly
\* payment, for every payoff_time and fraction_invested.
C6_LoanShareAtLeastMinimum ==
  \A k \in StepRows :
    is_month_end(master_table[k].date) =>
      master_table[k].loan_payment - master_table[k].current_month_interest
        >= minimum_monthly_payment(PrincipalAfterInterest(k))

\* principals at which the minimum payment is compared with its formula
C7_Grid(j) == (initial_principal \div 10) * j

C7_Principals ==
  { principal, initial_principal } \cup { C7_Grid(j) : j \in 0..12 }

\* the minimum monthly payment as the claim states it
C7_Formula(p) ==
  LET a == IF 10 * p > 7 * asset_value THEN 2
           ELSE IF 10 * p > 5 * asset_value THEN 1 ELSE 0
      b == IF 10 * p > 45 * household_gross_income THEN 1 ELSE 0
      pct == IF a >= b THEN a ELSE b
  IN  (initial_principal * pct) \div 1200

\* ratios around the cutoffs, in hundredths
C7_Ratios ==
  { Rat(n, 100) : n \in {0, 50, 51, 70, 71, 450, 451} }

\* the yearly percentage never decreases when one ratio rises
C7_Monotone ==
  \A l1 \in C7_Ratios, l2 \in C7_Ratios, d1 \in C7_Ratios, d2 \in C7_Ratios :
    (~RatGT(l1, l2) /\ ~RatGT(d1, d2)) =>
      ~RatGT(yearly_minimum_percentage(l1, d1),
             yearly_minimum_percentage(l2, d2))

\* C7: minimum_monthly_payment is initial_principal * max(a, b) / 12 with a
\* from the loan-to-value ratio (2% above 0.7, 1% above 0.5) and b from the
\* debt ratio (1% above 4.5), both ratios taken on the current principal; it
\* is 0 below all cutoffs and never decreases when a ratio rises.
C7_MinimumMonthlyPayment ==
  /\ \A p \in C7_Principals : minimum_monthly_payment(p) = C7_Formula(p)
  /\ \A j \in 0..11 :
       minimum_monthly_payment(C7_Grid(j))
         <= minimum_monthly_payment(C7_Grid(j + 1))
  /\ principal <= initial_principal =>
       minimum_monthly_payment(principal)
         <= minimum_monthly_payment(initial_principal)
  /\ initial_principal <= principal =>
       minimum_monthly_payment(initial_principal)
         <= minimum_monthly_payment(principal)
  /\ C7_Monotone

C7_Witness ==
  /\ principal # initial_principal
  /\ minimum_monthly_payment(principal) >
       minimum_monthly_payment(initial_principal)
  /\ minimum_monthly_payment(initial_principal) > 0
  /\ Len(master_table) > 2

\* the step from the current state reads a row of the daily table
StepInRange == row_index(master_table) < Len(historic_date_range)

\* the day, its table values and the posted investment of the step that
\* leads from the current state to the next one
StepDate == At(historic_date_range, row_index(master_table))
StepRate == At(standard_rate, row_index(master_table))
StepMultiplier == At(omxs30_change_multiplier, row_index(master_table) - 1)
StepInvestment == master_table'[Len(master_table')].fund_investment

\* fund value of the step before any tax settlement, given the fund value f1
\* after fee and index change
StepFundBeforeTax(f1) ==
  fund_after_risk_cost(FAdd(f1, Fin(StepInvestment)), StepDate)

\* amount * standard_rate(date) * 0.3
C8_Tax(amount, rate) == FScale(FScale(amount, rate), _capital_tax_rate)

\* C8: every amount a step adds to fund_tax_due (for the investment posted
\* that day, and on 1 January for the full fund balance) is the taxed amount
\* times the daily table's standard rate of the day times 0.3.
C8_TaxAccrualAtTableRate ==
  [][ StepInRange =>
      LET f3 == StepFundBeforeTax(
                  fund_after_index(fund_after_fee(fund_value), StepMultiplier))
          accrual ==
            FAdd(C8_Tax(Fin(StepInvestment), StepRate),
                 IF is_year_start(StepDate) THEN C8_Tax(f3, StepRate)
                 ELSE Fin(0))
          due == FAdd(fund_tax_due, accrual)
      IN  IF is_tax_settlement(StepDate)
          THEN fund_value' = FSub(f3, due)
          ELSE fund_tax_due' = due ]_vars

\* C9: fund_tax_due starts at 0; on the last day of January, April, July
\* and October the whole accrued tax, that of the day included, is taken
\* from fund_value and fund_tax_due is 0 afterwards; on every other day
\* fund_tax_due is not reduced and no tax is taken from fund_value.
C9_TaxSettlement ==
  [][ StepInRange =>
      LET f3 == StepFundBeforeTax(
                  fund_after_index(fund_after_fee(fund_value), StepMultiplier))
          due == tax_accrued(fund_tax_due, StepInvestment, f3, StepDate,
                             StepRate)
      IN  /\ Len(master_table) = 1 => fund_tax_due = Fin(0)
          /\ IF is_tax_settlement(StepDate)
             THEN fund_value' = FSub(f3, due) /\ fund_tax_due' = Fin(0)
             ELSE ~FLess(fund_tax_due', fund_tax_due) /\ fund_value' = f3
    ]_vars

\* C10: when the equity multiplier of the previous day is zero or not
\* finite, the step leaves fund_value as a multiplier of 1 would.
C10_UnusableMultiplierIsOne ==
  [][ (StepInRange /\ (StepMultiplier.cls # "fin" \/ StepMultiplier.n = 0)) =>
        /\ fund_value' =
             fund_and_tax(fund_after_fee(fund_value), StepInvestment,
                          fund_tax_due, StepDate, StepRate).fund_value
        /\ IsFin(fund_value) => IsFin(fund_value') ]_vars

\* C11: a call of add_master_row with ledger length + days_offset at or
\* past the length of the daily table ends with an error, appends no row and
\* leaves principal, fund_value and fund_tax_due as they were.
C11_OutOfRangeCallFails ==
  [][ ~StepInRange =>
        /\ raised' = "IndexError"
        /\ master_table' = master_table
        /\ principal' = principal
        /\ fund_value' = fund_value
        /\ fund_tax_due' = fund_tax_due ]_vars

C11_Witness ==
  /\ raised = "IndexError"
  /\ Len(master_table) + days_offset = Len(historic_date_range)
  /\ Len(master_table) > 2
  /\ days_offset > 0
  /\ principal # initial_principal
  /\ fund_value # Fin(0)

\* the instance is as its constructor left it
Fresh ==
  /\ Len(master_table) = 1
  /\ ~cumulative_interest.present
  /\ raised = "none"

\* C12: expand_master_table() with its default length, called on a fresh
\* instance, stays within the daily table exactly when days_offset is at
\* most max_start_offset: max_start_offset is the largest safe offset.
C12_MaxStartOffsetIsLargestSafe ==
  [][ Fresh => (raised' = "none" <=> days_offset <= max_start_offset) ]_vars

\* |principal_fund_delta| of the ledger row with 0-based index i
C13_AbsDelta(i) == FAbs(At(master_table, i).principal_fund_delta)

\* i is the smallest row index at which |principal_fund_delta| is least
\* (rows whose delta is NaN do not take part)
C13_IsBreakEven(i) ==
  /\ C13_AbsDelta(i) # NaN
  /\ \A j \in 0..(Len(master_table) - 1) :
       /\ ~FLess(C13_AbsDelta(j), C13_AbsDelta(i))
       /\ (j < i /\ C13_AbsDelta(j) # NaN) =>
            FLess(C13_AbsDelta(i), C13_AbsDelta(j))

\* C13: summary_stats reports years_to_break_even = i / 365 and
\* interest_paid_at_break_even = cumulative_interest of row i, for the
\* smallest row index i at which |principal_fund_delta| attains its minimum.
C13_BreakEven ==
  returned # << >> =>
    \E i \in 0..(Len(master_table) - 1) :
      /\ C13_IsBreakEven(i)
      /\ returned[1].years_to_break_even = Rat(i, 365)
      /\ returned[1].interest_paid_at_break_even =
           At(cumulative_interest.values, i)

C13_Witness ==
  /\ returned # << >>
  /\ returned[1].years_to_break_even.n > 0
  /\ returned[1].years_to_break_even.n < Len(master_table) - 1
  /\ IsFin(returned[1].interest_paid_at_break_even)
  /\ returned[1].interest_paid_at_break_even.v > 0
  /\ fund_value # Fin(0)

\* the current date's month and day come before those of the birth date
C14_BeforeBirthday ==
  \/ current_date.month < birth_date.month
  \/ /\ current_date.month = birth_date.month
     /\ current_date.day < birth_date.day

\* C14: age is the current year minus the birth year, less 1 exactly when
\* the current month and day are strictly before those of the birth date
\* (birth 2006-09-02: 17 on 2024-09-01, 18 on 2024-09-02 and later).
C14_Age ==
  /\ age = (current_date.year - birth_date.year)
             - (IF C14_BeforeBirthday THEN 1 ELSE 0)
  /\ birth_date = Date(2006, 9, 2) =>
       /\ current_date = Date(2024, 9, 1) => age = 17
       /\ current_date \in {Date(2024, 9, 2), Date(2024, 9, 3)} => age = 18

C14_Witness ==
  /\ birth_date.month = current_date.month
  /\ birth_date.day = current_date.day
  /\ birth_date.year < current_date.year
  /\ Len(master_table) > 2
  /\ master_table[Len(master_table)].date.day = 1
  /\ fund_value # Fin(0)

\* C15: rounded_age is 20 below 20, 90 above 90 and otherwise the multiple
\* of 5 nearest to age; it always is a key of the risk-cost table.
C15_RoundedAge ==
  /\ age < 20 => rounded_age = 20
  /\ age > 90 => rounded_age = 90
  /\ (age >= 20 /\ age <= 90) =>
       /\ rounded_age % 5 = 0
       /\ rounded_age - age <= 2
       /\ age - rounded_age <= 2
  /\ rounded_age \in DOMAIN _risk_cost_per_million_by_age_cutoffs
  /\ rounded_age \in { 20 + 5 * k : k \in 0..14 }

C15_Witness ==
  /\ age > 20
  /\ age < 90
  /\ age % 5 = 3
  /\ rounded_age = age + 2
  /\ Len(master_table) > 2
  /\ master_table[Len(master_table)].date.day = 1
  /\ FLess(fund_value,
           fund_after_index(fund_after_fee(
                              master_table[Len(master_table) - 1].fund_value),
                            At(omxs30_change_multiplier,
                               IdxOf(Len(master_table)) - 1)))

(***************************************************************************)
(* Properties of the tables of HistoricTables.                             *)
(***************************************************************************)
MainTableColumns ==
  { "date", "omxs30_change_multiplier", "policy_rate", "standard_rate",
    "consumer_price_index_change_multiplier" }

\* the latest call returned a main_table with rows
MainTableReturned ==
  /\ returned # << >>
  /\ returned[1] # << >>
  /\ DOMAIN returned[1][1] = MainTableColumns

\* C16: every row of main_table holds a value in each of its five fields,
\* and every row after the first is dated the calendar day after the row
\* before it.
C16_DailyAndPopulated ==
  MainTableReturned =>
    LET t == returned[1]
    IN  /\ \A i \in 1..Len(t) :
             /\ t[i].date # NaT
             /\ t[i].omxs30_change_multiplier.cls # "nan"
             /\ t[i].policy_rate.cls # "nan"
             /\ t[i].standard_rate.cls # "nan"
             /\ t[i].consumer_price_index_change_multiplier.cls # "nan"
        /\ \A i \in 1..(Len(t) - 1) : t[i + 1].date = NextDay(t[i].date)

\* a main_table that starts after the first day of the equity index, on
\* the first day of the policy rate, and runs over a weekend without closes
C16_Witness ==
  /\ MainTableReturned
  /\ DateLess(_old_omxs30[1].date, returned[1][1].date)
  /\ returned[1][1].date = date_min(_policy_rate)
  /\ \E i \in 1..Len(returned[1]) :
       /\ returned[1][i].date = Date(2023, 7, 1)
       /\ \A j \in 1..Len(_new_omxs30) :
            _new_omxs30[j].date # returned[1][i].date

\* the latest date of the merged equity index series
LatestIndexDate == date_max(_old_omxs30 \o _new_omxs30)

\* C17: main_table has no row dated at or after the latest date of the
\* merged equity index series, and it has every earlier day on which all
\* five fields are available: as the fields carry forward from day to day
\* and the multiplier of the day before the latest index date comes from the
\* latest close, a main_table with rows ends on that day.
C17_EndsTheDayBeforeLatestIndexDate ==
  MainTableReturned =>
    LET t == returned[1]
    IN  /\ \A i \in 1..Len(t) : DateLess(t[i].date, LatestIndexDate)
        /\ NextDay(t[Len(t)].date) = LatestIndexDate

\* the latest call returned a standard_rate table
StandardRateReturned ==
  /\ returned # << >>
  /\ returned[1] # << >>
  /\ DOMAIN returned[1][1] = { "date", "standard_rate" }

\* the government borrowing rate in force on 30 November of the year y: the
\* latest observation dated on or before that day, as a fraction
RateOnNov30(y) ==
  Hundredth(ffilled(_goverment_borrowing_rate, "government_borrowing_rate",
                    Date(y, 11, 30)))

\* max(0.0125, r + 0.01)
StandardRateFrom(r) ==
  IF MultLess(PlusHundredth(r), Mult(125, 10000)) THEN Mult(125, 10000)
  ELSE PlusHundredth(r)

\* C18: on every day from 1 January to 30 June of a year Y that the
\* standard_rate table covers, the rate is max(0.0125, r + 0.01) for the
\* government borrowing rate r in force on 30 November of the year Y - 1,
\* an observation dated 30 November itself included.
C18_RateOfPreviousNov30 ==
  StandardRateReturned =>
    \A i \in 1..Len(returned[1]) :
      returned[1][i].date.month <= 6 =>
        MultSame(returned[1][i].standard_rate,
                 StandardRateFrom(RateOnNov30(returned[1][i].date.year - 1)))

\* the index of the row dated 1 January of the year of row i in a daily
\* table t
Jan1Row(t, i) ==
  i - days_between(Date(t[i].date.year, 1, 1), t[i].date)

\* C19: in every year of the standard_rate table, the last one included,
\* which runs to 31 December, the rate of each day from 1 July to
\* 31 December is exactly half the rate of the days from 1 January to
\* 30 June of that year.
C19_SecondHalfIsHalved ==
  StandardRateReturned =>
    LET t == returned[1]
    IN  /\ t[Len(t)].date.month = 12
        /\ t[Len(t)].date.day = 31
        /\ \A i \in 1..Len(t) :
             /\ Jan1Row(t, i) >= 1
             /\ t[Jan1Row(t, i)].date = Date(t[i].date.year, 1, 1)
             /\ t[i].standard_rate.cls = "fin"
             /\ IF t[i].date.month <= 6
                THEN t[i].standard_rate.n * t[Jan1Row(t, i)].standard_rate.d
                     = t[Jan1Row(t, i)].standard_rate.n * t[i].standard_rate.d
                ELSE 2 * t[i].standard_rate.n
                       * t[Jan1Row(t, i)].standard_rate.d
                     = t[Jan1Row(t, i)].standard_rate.n * t[i].standard_rate.d

\* a table of two years with different rates, the second of them the
\* final year
C19_Witness ==
  /\ StandardRateReturned
  /\ Len(returned[1]) = 730
  /\ returned[1][1].date = Date(2022, 1, 1)
  /\ returned[1][730].date = Date(2023, 12, 31)
  /\ returned[1][1].standard_rate = Mult(125, 10000)
  /\ returned[1][366].standard_rate = Mult(280, 10000)
  /\ returned[1][730].standard_rate = Mult(280, 20000)

\* the raw frame a returned expansion was made from, << >> when the latest
\* call returned no expansion of a raw frame
ExpandedFrame ==
  IF returned = << >> \/ returned[1] = << >> THEN << >>
  ELSE IF DOMAIN returned[1][1] = { "date", "close" } THEN _new_omxs30
  ELSE IF DOMAIN returned[1][1]
            = { "date", "government_borrowing_rate", "current_year_average" }
  THEN _goverment_borrowing_rate
  ELSE IF DOMAIN returned[1][1] = { "date", "consumer_price_index" }
  THEN _consumer_price_index
  ELSE << >>

\* the row of a frame with unique dates that is the latest one dated on or
\* before the day d
LatestRowOnOrBefore(df, d) ==
  CHOOSE j \in 1..Len(df) :
    /\ ~DateLess(d, df[j].date)
    /\ \A k \in 1..Len(df) :
         ~DateLess(d, df[k].date) => ~DateLess(df[j].date, df[k].date)

\* C20: _expand_date_range of a series with rows and unique dates (whose
\* cells all hold values) returns (max_date - min_date).days + 1 rows, one
\* for each calendar day from min_date to max_date in order, and each row
\* holds the values of the latest input row dated on or before its day.
C20_ExpandDateRange ==
  ExpandedFrame # << >> =>
    LET df == ExpandedFrame
        out == returned[1]
        min_date == df[CHOOSE i \in 1..Len(df) :
                         \A j \in 1..Len(df) :
                           ~DateLess(df[j].date, df[i].date)].date
        max_date == df[CHOOSE i \in 1..Len(df) :
                         \A j \in 1..Len(df) :
                           ~DateLess(df[i].date, df[j].date)].date
    IN  /\ Len(out) = toordinal(max_date) - toordinal(min_date) + 1
        /\ out[1].date = min_date
        /\ out[Len(out)].date = max_date
        /\ \A i \in 1..(Len(out) - 1) : out[i + 1].date = NextDay(out[i].date)
        /\ \A i \in 1..Len(out) :
             \A c \in DOMAIN out[i] \ { "date" } :
               out[i][c] = df[LatestRowOnOrBefore(df, out[i].date)][c]

\* the expansion of a frame whose rows are out of order and days apart
C20_Witness ==
  /\ ExpandedFrame = _consumer_price_index
  /\ Len(_consumer_price_index) = 2
  /\ DateLess(_consumer_price_index[2].date, _consumer_price_index[1].date)
  /\ Len(returned[1]) = 17
  /\ returned[1][16].consumer_price_index = Mult(39800, 100)
  /\ returned[1][17].consumer_price_index = Mult(40100, 100)

(***************************************************************************)
(* Properties of instances that share a HistoricTables.                    *)
(***************************************************************************)
\* the loan state of the instance right after its construction
SeedState ==
  [ principal |-> initial_principal, fund_value |-> Fin(0),
    fund_tax_due |-> Fin(0),
    master_table |->
      << SeedRow(At(historic_date_range, days_offset), initial_principal,
                 Fin(0)) >>,
    cumulative_interest |-> NoColumn, raised |-> "none" ]

\* the loan state of the instance had it made its steps with no other
\* instance around
RunAlone == add_master_rows(SeedState, Len(master_table) - 1)

\* C21: instances over the same HistoricTables, stepped with add_master_row
\* in any interleaving, each hold the principal, fund_value, fund_tax_due
\* and ledger of the same number of steps made alone; a step on one
\* instance leaves the attributes of the other and the shared daily table
\* as they are.
C21_InstancesAreIndependent ==
  /\ [](other # << >> =>
          /\ principal = RunAlone.principal
          /\ fund_value = RunAlone.fund_value
          /\ fund_tax_due = RunAlone.fund_tax_due
          /\ master_table = RunAlone.master_table)
  /\ [][/\ << omxs30_change_multiplier, standard_rate,
              historic_date_range >>' =
             << omxs30_change_multiplier, standard_rate,
                historic_date_range >>
        /\ \/ other' = other /\ bank_rate' = bank_rate
           \/ other' = instance /\ bank_rate' = other.bank_rate]_vars

\* both instances have made steps of their own, a different number each,
\* and both hold a fund
C21_Witness ==
  /\ other # << >>
  /\ Len(master_table) > 3
  /\ Len(other.master_table) > 2
  /\ Len(master_table) # Len(other.master_table)
  /\ other.asset_value # asset_value
  /\ other.days_offset # days_offset
  /\ fund_value # Fin(0)
  /\ other.fund_value # Fin(0)
  /\ fund_value # other.fund_value

\* the two instances were constructed with identical arguments
SameArguments ==
  /\ other # << >>
  /\ other.asset_value = asset_value
  /\ other.birth_date = birth_date
  /\ other.household_gross_income = household_gross_income
  /\ other.initial_principal = initial_principal
  /\ other.days_offset = days_offset
  /\ other.payoff_time = payoff_time
  /\ other.fund_fee = fund_fee
  /\ other.fraction_invested = fraction_invested
  /\ other.bank_rate = bank_rate

\* C22: two instances constructed with identical arguments over the same
\* daily table, at whatever moments, hold identical ledgers after the same
\* number of add_master_row steps: the steps depend on the loan state and
\* the daily table only.
C22_LedgerIndependentOfClock ==
  (SameArguments /\ Len(other.master_table) = Len(master_table))
    => other.master_table = master_table

(***************************************************************************)
(* Properties of the ledger under all four calls.                          *)
(***************************************************************************)
\* the step leaves every cell of the cumulative_interest column that
\* existed before it as it was
ColumnKept ==
  /\ cumulative_interest'.present = cumulative_interest.present
  /\ \A k \in 1..Len(cumulative_interest.values) :
       cumulative_interest'.values[k] = cumulative_interest.values[k]

\* the step leaves the column as add_cumlative_interest writes it
ColumnWritten ==
  /\ cumulative_interest'.present
  /\ \A k \in 1..Len(master_table') :
       cumulative_interest'.values[k]
         = cumulative_interest_filled(master_table', cumulative_interest', k)
  /\ \A k \in 1..Len(master_table') :
       is_month_end(master_table'[k].date) =>
         cumulative_interest'.values[k]
           = Fin(month_end_cumsum(master_table', k))

\* C23: no call changes a value (date, principal, fund_value,
\* current_month_interest, loan_payment, fund_investment,
\* principal_fund_delta) of a ledger row that exists already; add_master_row
\* only appends, and the cells of the derived cumulative_interest column
\* change only where add_cumlative_interest writes the column.
C23_ExistingRowsKept ==
  [][/\ Len(master_table') >= Len(master_table)
     /\ \A k \in 1..Len(master_table) : master_table'[k] = master_table[k]
     /\ ColumnKept \/ ColumnWritten
     /\ (Len(master_table') = Len(master_table) + 1
         /\ cumulative_interest.present
         /\ cumulative_interest'.values[Len(master_table')] = NaN)
          => ColumnKept]_vars

\* rows were appended to a ledger whose column had been written
C23_Witness ==
  /\ Len(master_table) > 3
  /\ cumulative_interest.present
  /\ cumulative_interest.values[Len(master_table)] = NaN
  /\ cumulative_interest.values[Len(master_table) - 1] = NaN
  /\ cumulative_interest.values[2] = Fin(0)

\* the ledger row of the first month-end day on which a fund investment
\* (an amount other than 0) was posted, 0 when there is none yet
FirstInvestmentRow ==
  LET rows == { k \in StepRows : /\ is_month_end(master_table[k].date)
                                 /\ master_table[k].fund_investment # 0 }
  IN  IF rows = {} THEN 0 ELSE CHOOSE k \in rows : \A j \in rows : k <= j

\* the equity multipliers applied up to ledger row k are all finite numbers
UsableMultipliersUpTo(k) ==
  \A j \in 2..k :
    index_multiplier(At(omxs30_change_multiplier, IdxOf(j) - 1)).cls = "fin"

\* the run of the end-to-end scenario: started on the first day of the daily
\* table with fund_value 0, and the first fund investment has been posted
\* at least two days after the start, so that the day before it is a
\* recorded step
EndToEndRun ==
  /\ days_offset = 0
  /\ master_table[1].fund_value = Fin(0)
  /\ FirstInvestmentRow >= 3

\* C24 (as stated): in a run that starts with fund_value 0 on the first
\* available day, fund_value strictly increases across the first month-end
\* day on which a fund investment posts, and strictly decreases across the
\* day before it, on which nothing posts.
C24_FundRisesAfterFalling ==
  EndToEndRun =>
    LET k == FirstInvestmentRow IN
    /\ FLess(master_table[k - 1].fund_value, master_table[k].fund_value)
    /\ FLess(master_table[k - 1].fund_value, master_table[k - 2].fund_value)

\* C24 (amended): in a run that starts with fund_value 0 on the first
\* available day, let D be the first month-end day on which a fund
\* investment posts. When D is at least two days after the start, the
\* investment posted on D is positive and every equity multiplier applied up
\* to D is a finite number, fund_value strictly increases across D, and
\* across the day before D, on which nothing posts, it is unchanged: 0
\* before and 0 after.
C24_FundStaysZeroThenRises ==
  (/\ EndToEndRun
   /\ master_table[FirstInvestmentRow].fund_investment > 0
   /\ UsableMultipliersUpTo(FirstInvestmentRow)) =>
    LET k == FirstInvestmentRow IN
    /\ FLess(master_table[k - 1].fund_value, master_table[k].fund_value)
    /\ master_table[k - 1].fund_investment = 0
    /\ master_table[k - 1].loan_payment = 0
    /\ master_table[k - 2].fund_value = Fin(0)
    /\ master_table[k - 1].fund_value = Fin(0)

\* the run of the test: from 1994-06-01 the first investment posts on
\* 1994-06-30, after a day across which fund_value stays 0
C24_Witness ==
  /\ EndToEndRun
  /\ master_table[FirstInvestmentRow].fund_investment > 0
  /\ UsableMultipliersUpTo(FirstInvestmentRow)
  /\ master_table[1].date = Date(1994, 6, 1)
  /\ FirstInvestmentRow = 30
  /\ master_table[28].fund_value = master_table[29].fund_value
  /\ master_table[30].fund_value.v > 0

(***************************************************************************)
(* Properties of the daily interest rate.                                  *)
(***************************************************************************)
\* the latest call returned a daily interest rate
RateReturned ==
  /\ returned # << >>
  /\ DOMAIN returned[1] = {"yearly_interest_rate", "year", "daily_interest_rate"}

\* L: 366 in a leap year of the Gregorian calendar, 365 otherwise
YearLength(year) ==
  IF (year % 4 = 0 /\ year % 100 # 0) \/ year % 400 = 0 THEN 366 ELSE 365

\* floating-point tolerance of a compounded rate: five decimals
RateTolerance == Scale8 \div 100000

\* a and b differ by no more than the tolerance
CloseTo(a, b) == a - b \in (0 - RateTolerance)..RateTolerance

\* C25: for every annual rate r and calendar year,
\* _calculate_daily_interest_rate returns a daily multiplier m with
\* m ** L = 1 + r to floating-point tolerance, where L is 366 when the year
\* is a leap year and 365 otherwise.
C25_DailyRateCompoundsToYearlyRate ==
  RateReturned =>
    LET r == returned[1].yearly_interest_rate
        m == returned[1].daily_interest_rate
        whole == compounded(m, YearLength(returned[1].year))
    IN  /\ whole.cls = "fin"
        /\ CloseTo(whole.n, base8(r))

\* a rate of 30 % in a leap year: the multiplier compounds to 1.30 over 366
\* days and not over 365
C25_Witness ==
  /\ RateReturned
  /\ returned[1].year = 2024
  /\ MultSame(returned[1].yearly_interest_rate, Mult(3, 10))
  /\ returned[1].daily_interest_rate.n > Scale8
  /\ CloseTo(compounded(returned[1].daily_interest_rate, 366).n,
             13 * (Scale8 \div 10))
  /\ ~CloseTo(compounded(returned[1].daily_interest_rate, 365).n,
              13 * (Scale8 \div 10))

\* C26: the principal recorded in ledger row k (k >= 1, the seed row being
\* row 0) equals the principal of row k - 1 times the daily multiplier of
\* daily-table row idx - 1, idx = k + days_offset (the previous calendar
\* day, never the multiplier of the day being recorded), minus the
\* loan_payment recorded in row k.
C26_PrincipalCompoundsAtPreviousDayRate ==
  \A j \in StepRows :
    LET k == j - 1
        idx == k + days_offset
    IN  /\ master_table[j].date = At(historic_date_range, idx)
        /\ master_table[j].principal =
             MulRat(master_table[j - 1].principal, At(bank_rate, idx - 1))
               - master_table[j].loan_payment

\* a row recorded on the day the multiplier changes, and a month-end row
\* with a payment, both after a start offset
C26_Witness ==
  /\ days_offset > 0
  /\ \E j \in StepRows :
       /\ At(bank_rate, IdxOf(j)) # At(bank_rate, IdxOf(j) - 1)
       /\ master_table[j].principal > master_table[j - 1].principal
  /\ \E j \in StepRows :
       /\ master_table[j].loan_payment > 0
       /\ master_table[j].principal < master_table[j - 1].principal

\* the rows the ledger held when row j was recorded that are dated the first
\* day of the month of row j
AnchorRows(j) ==
  { k \in 1..(j - 1) :
      /\ master_table[k].date.year = master_table[j].date.year
      /\ master_table[k].date.month = master_table[j].date.month
      /\ master_table[k].date.day = 1 }

\* the row dated that first day (the earliest, should the ledger hold two)
FirstAnchor(j) ==
  CHOOSE k \in AnchorRows(j) : \A i \in AnchorRows(j) : k <= i

\* C27: the current_month_interest recorded for a day equals that day's
\* principal after interest compounding and before any payment, minus the
\* principal recorded in the ledger row dated the first day of the same
\* calendar month; it is 0 whenever the ledger holds no row for that first
\* day (every day of a first partial month, its month-end included).
C27_InterestSinceFirstOfMonth ==
  \A j \in StepRows :
    IF AnchorRows(j) = {}
    THEN master_table[j].current_month_interest = 0
    ELSE master_table[j].current_month_interest =
           PrincipalAfterInterest(j) - master_table[FirstAnchor(j)].principal

\* the month-end of a first partial month, with interest compounded and
\* none recorded, and a later day with recorded interest
C27_Witness ==
  /\ \E j \in StepRows :
       /\ AnchorRows(j) = {}
       /\ is_month_end(master_table[j].date)
       /\ j > 2
       /\ PrincipalAfterInterest(j) > master_table[1].principal
       /\ master_table[j].current_month_interest = 0
  /\ \E j \in StepRows :
       /\ AnchorRows(j) # {}
       /\ master_table[j].date.day > 2
       /\ master_table[j].current_month_interest >
            PrincipalAfterInterest(j) - master_table[j - 1].principal

\* fund_value * cost_per_million[rounded_age] / 1e6
C28_RiskCost(fv) ==
  FDivInt(FScale(fv, _risk_cost_per_million_by_age_cutoffs[rounded_age]),
          1000000)

\* C28: add_master_row deducts the risk cost
\* fund_value * cost_per_million[rounded_age] / 1e6 from fund_value on
\* exactly the days that are the first day of a calendar month, computed on
\* fund_value after that day's fund fee and index change, and makes no
\* risk-cost deduction on any other day (there the fund changes by the
\* posted investment and, on a settlement day, the tax due only).
C28_RiskCostOnFirstOfMonthOnly ==
  [][ StepInRange =>
      LET f1 == fund_after_index(fund_after_fee(fund_value), StepMultiplier)
          f2 == FAdd(f1, Fin(StepInvestment))
      IN  IF StepDate.day = 1
          THEN /\ StepInvestment = 0
               /\ fund_value' = FSub(f1, C28_RiskCost(f1))
          ELSE fund_value' =
                 FSub(f2,
                      IF is_tax_settlement(StepDate)
                      THEN tax_accrued(fund_tax_due, StepInvestment, f2,
                                       StepDate, StepRate)
                      ELSE Fin(0)) ]_vars

\* a first-of-month row whose fund value is below the previous row's fund
\* value after fee and index change
C28_Witness ==
  \E j \in StepRows :
    /\ master_table[j].date.day = 1
    /\ master_table[j - 1].fund_value.cls = "fin"
    /\ master_table[j - 1].fund_value.v > 0
    /\ FLess(master_table[j].fund_value,
             fund_after_index(fund_after_fee(master_table[j - 1].fund_value),
                              At(omxs30_change_multiplier, IdxOf(j) - 1)))
    /\ C28_RiskCost(master_table[j - 1].fund_value).v > 0

\* month-end rows whose month's first day has a ledger row
AnchoredMonthEnds ==
  { j \in StepRows : is_month_end(master_table[j].date) /\ AnchorRows(j) # {} }

\* total_monthly_payment - fund_investment of row j
LoanShare(j) ==
  initial_principal \div (payoff_time * 12) - master_table[j].fund_investment

\* C29: on every month-end day whose month's first day has a ledger row, the
\* principal recorded after the payment equals the principal recorded on that
\* first day minus the loan share (total_monthly_payment - fund_investment):
\* the payment takes the loan share and all interest accrued since the first
\* of the month, and the principal of the following first of the month is
\* that balance with the interest of the single day in between.
C29_MonthEndPrincipal ==
  \A j \in AnchoredMonthEnds :
    \E k \in { FirstAnchor(j) } :
      /\ master_table[j].principal = master_table[k].principal - LoanShare(j)
      /\ master_table[j].loan_payment =
           LoanShare(j) + (PrincipalAfterInterest(j) - master_table[k].principal)
      /\ \A i \in (k + 1)..(j - 1) : master_table[i].loan_payment = 0
      /\ j < Len(master_table) =>
           master_table[j + 1].principal =
             MulRat(master_table[k].principal - LoanShare(j),
                    At(bank_rate, IdxOf(j + 1) - 1))

\* a full month in the ledger: interest accrued since its first day, paid
\* off at its end, and one day of interest on the following first
C29_Witness ==
  \E j \in AnchoredMonthEnds :
    \E k \in AnchorRows(j) :
      /\ k > 1
      /\ j < Len(master_table)
      /\ PrincipalAfterInterest(j) > master_table[k].principal
      /\ master_table[j].fund_investment > 0
      /\ master_table[j].principal < master_table[k].principal
      /\ master_table[j + 1].principal > master_table[j].principal

\* the sum of current_month_interest over the month-end rows among the
\* first k ledger rows
RECURSIVE SumMonthEndInterest(_)
SumMonthEndInterest(k) ==
  IF k = 0 THEN 0
  ELSE (IF is_month_end(master_table[k].date)
        THEN master_table[k].current_month_interest ELSE 0)
       + SumMonthEndInterest(k - 1)

\* C30: after any sequence of add_master_row, add_cumlative_interest,
\* expand_master_table and summary_stats calls that leaves at least one
\* month-end row in the ledger, summary_stats reports max_interest equal to
\* the sum of current_month_interest over all month-end rows currently in
\* the ledger, also when rows were appended after cumulative_interest was
\* last computed.
C30_MaxInterestIsCurrent ==
  ( /\ returned # << >>
    /\ \E j \in 1..Len(master_table) : is_month_end(master_table[j].date) )
  => returned[1].max_interest = Fin(SumMonthEndInterest(Len(master_table)))

=============================================================================
